---- MODULE Spec2Model ----
(***************************************************************************)
(* Probability-tree scoring engine of wurdo: the tree builder, the hybrid  *)
(* storage service (memory cache, key-value store, JSON fallback) and the  *)
(* scoring service that ties them together.                                *)
(*                                                                         *)
(* Python values carry their class in a field cls, so that isinstance and  *)
(* attribute access behave as in the source.  Floats are exact fractions   *)
(* n/d in lowest terms.                                                    *)
(***************************************************************************)
EXTENDS Integers, Sequences, FiniteSets, TLC

\* ---------------------------------------------------------------- bounds
\* size of the model vocabulary (50257 in production)
vocab_size == 3
\* StorageConfig.cache_size (1000 in production)
cache_size == 1

\* ------------------------------------------------------------ constants
\* ProbabilityTreeBuilder._get_word_frequency
PlaceholderFrequency == 50

\* ------------------------------------------------------- Python values
None == [cls |-> "NoneType"]

\* a local variable: the value is computed once, before the body runs, and
\* the body reads it by name
Bind(value, Body(_)) == CHOOSE result \in {Body(v) : v \in {value}} : TRUE

RECURSIVE GCD(_, _)
GCD(a, b) == IF b = 0 THEN a ELSE GCD(b, a % b)

\* a Python float, kept as the exact fraction n/d
Float(n, d) == LET g == GCD(n, d) IN [cls |-> "float", n |-> n \div g, d |-> d \div g]

Zero == Float(0, 1)
One == Float(1, 1)

FAdd(x, y) == Float(x.n * y.d + y.n * x.d, x.d * y.d)
FMul(x, y) == Float(x.n * y.n, x.d * y.d)
FDiv(x, y) == Float(x.n * y.d, x.d * y.n)
FGt(x, y) == x.n * y.d > y.n * x.d
FGe(x, y) == x.n * y.d >= y.n * x.d
FAbsDiff(x, y) == IF FGe(x, y) THEN Float(x.n * y.d - y.n * x.d, x.d * y.d)
                  ELSE Float(y.n * x.d - x.n * y.d, x.d * y.d)

RECURSIVE FSum(_)
FSum(s) == IF s = <<>> THEN Zero ELSE FAdd(Head(s), FSum(Tail(s)))

RECURSIVE FMax(_)
FMax(s) == IF Len(s) = 1 THEN s[1]
           ELSE LET m == FMax(Tail(s)) IN IF FGe(s[1], m) THEN s[1] ELSE m

RECURSIVE MaxLen(_)
MaxLen(seqs) == IF seqs = <<>> THEN 0
                ELSE LET m == MaxLen(Tail(seqs)) IN
                     IF Len(Head(seqs)) >= m THEN Len(Head(seqs)) ELSE m

\* the keys of a dict, as a sequence in some fixed order
RECURSIVE SetToSeq(_)
SetToSeq(S) == IF S = {} THEN <<>>
               ELSE LET x == CHOOSE y \in S : TRUE IN <<x>> \o SetToSeq(S \ {x})

\* ------------------------------------------------------- the environment
\* start words requested by callers
Anchors == {"cat", "dog"}

\* the byte-level tokenizer: word -> token ids
TokenizerEncode(word) ==
    CASE word = "act"  -> <<1, 1>>
      [] word = "hat"  -> <<1>>
      [] word = "bat"  -> <<0>>
      [] word = "cart" -> <<0, 1>>
      [] word = "chat" -> <<0, 2>>
      [] word = "that" -> <<1, 0>>
      [] word = "god"  -> <<1>>
      [] word = "dig"  -> <<1, 2>>
      [] word = "fog"  -> <<0, 0, 1>>
      [] OTHER -> <<>>

NoTransformations ==
    [anagrams |-> <<>>, added_letters |-> <<>>, removed_letters |-> <<>>,
     changed_letters |-> <<>>, perfect_rhymes |-> <<>>, rich_rhymes |-> <<>>,
     slant_rhymes |-> <<>>]

\* the seven category lists of a start word
get_comprehensive_transformations(start_word) ==
    CASE start_word = "cat" ->
           [NoTransformations EXCEPT !.anagrams = <<"act">>,
                                     !.added_letters = <<"cart", "chat">>,
                                     !.changed_letters = <<"bat", "hat">>,
                                     !.perfect_rhymes = <<"hat", "bat", "that">>]
      [] start_word = "dog" ->
           [NoTransformations EXCEPT !.anagrams = <<"god">>,
                                     !.changed_letters = <<"dig", "fog">>,
                                     !.perfect_rhymes = <<"fog">>]
      [] OTHER -> NoTransformations

\* the next-token distribution of a context: a vector over the vocabulary
\* that sums to 1, a pure function of the context, with one zero entry
get_probability_vector(prompt) ==
    [i \in 1..vocab_size |->
        Float(((i - 1) + Len(prompt)) % vocab_size, (vocab_size * (vocab_size - 1)) \div 2)]

\* ------------------------------------------------------ probability tree
ProbabilityMetadata(org_max, val_prb_sum, max_dep) ==
    [cls |-> "ProbabilityMetadata", org_max |-> org_max,
     val_prb_sum |-> val_prb_sum, max_dep |-> max_dep]

ChildNode(probability, remaining_sequences, child_prb) ==
    [cls |-> "ChildNode", probability |-> probability,
     remaining_sequences |-> remaining_sequences, child_prb |-> child_prb]

ProbabilityNode(val, prb, dat) ==
    [cls |-> "ProbabilityNode", val |-> val, prb |-> prb, dat |-> dat]

WordProbabilityTree(frq, ana, olo, rhy) ==
    [cls |-> "WordProbabilityTree", frq |-> frq, ana |-> ana, olo |-> olo, rhy |-> rhy]

\* val = [None], the sentinel of an empty category
NullSentinel == << <<-1>> >>

EmptyDict == [k \in {} |-> None]

\* the probability stored under a token: the float itself or the child's
ProbOf(v) == IF v.cls = "float" THEN v ELSE v.probability

SetProb(v, p) == IF v.cls = "float" THEN p ELSE [v EXCEPT !.probability = p]

PrbSum(prb) == FSum([i \in 1..Cardinality(DOMAIN prb) |-> ProbOf(prb[SetToSeq(DOMAIN prb)[i]])])

\* first tokens in order of first appearance
RECURSIVE GroupKeys(_)
GroupKeys(sequences) ==
    IF sequences = <<>> THEN <<>>
    ELSE LET rest == GroupKeys(Tail(sequences))
             s == Head(sequences) IN
         IF s = <<>> THEN rest
         ELSE <<s[1]>> \o SelectSeq(rest, LAMBDA k : k # s[1])

\* the remainders of the sequences that start with first_token
RECURSIVE GroupOf(_, _)
GroupOf(sequences, first_token) ==
    IF sequences = <<>> THEN <<>>
    ELSE LET s == Head(sequences) IN
         IF s # <<>> /\ s[1] = first_token
         THEN <<Tail(s)>> \o GroupOf(Tail(sequences), first_token)
         ELSE GroupOf(Tail(sequences), first_token)

_group_sequences_by_first_token(sequences) ==
    [k \in {GroupKeys(sequences)[i] : i \in 1..Len(GroupKeys(sequences))} |->
        GroupOf(sequences, k)]

\* Python's any() over a list of lists
AnyNonEmpty(sequences) == \E i \in 1..Len(sequences) : sequences[i] # <<>>

EmptyNode == ProbabilityNode(NullSentinel, EmptyDict, ProbabilityMetadata(Zero, Zero, 0))

\* ----------------------------------------------------------- the builder
\* the state threaded through one build: the per-build vector cache and
\* the prompts the model was asked for, in order
\* the state of one build: the vectors cached by prompt and the prompts the
\* model was asked for; consumed and contexts keep, for every node built,
\* the tokens above it and the prompt its distribution was read for
NewBuildState ==
    [cached_prob_vectors |-> [k \in {} |-> <<>>], calls |-> <<>>,
     consumed |-> <<>>, contexts |-> <<>>]

\* a normalisation loop that leaves the probabilities as the model gave them
RenormalizeNothing(prb, total_prob) == prb

\* the normalisation loop: divide every stored probability by their sum
Renormalize(prb, total_prob) ==
    [k \in DOMAIN prb |-> SetProb(prb[k], FDiv(ProbOf(prb[k]), total_prob))]

BuildPrompt(start_word, category) == start_word \o " is a word that " \o category \o " with"

\* a cache test that never finds the prompt
NeverCached(cached_prob_vectors, full_prompt) == FALSE

\* cached_prob_vectors and full_prompt in cached_prob_vectors
IsCached(cached_prob_vectors, full_prompt) ==
    DOMAIN cached_prob_vectors # {} /\ full_prompt \in DOMAIN cached_prob_vectors

RECURSIVE _build_probability_node(_, _, _, _)
RECURSIVE BuildSparseArray(_, _, _, _, _, _, _)

\* the loop over token_groups: one entry per valid first token with a
\* probability above zero, a ChildNode where some remainder is non-empty
BuildSparseArray(start_word, token_sequences, category, probabilities, keys, sparse_array, st) ==
    IF keys = <<>> THEN [sparse_array |-> sparse_array, st |-> st]
    ELSE
      LET token_idx == Head(keys)
          child_sequences == GroupOf(token_sequences, token_idx)
      IN
      IF token_idx < Len(probabilities) /\ FGt(probabilities[token_idx + 1], Zero)
      THEN
        IF child_sequences # <<>> /\ AnyNonEmpty(child_sequences)
        THEN Bind(_build_probability_node(start_word, child_sequences, category,
                                          [st EXCEPT !.consumed = Append(@, token_idx)]),
                  LAMBDA r :
             BuildSparseArray(start_word, token_sequences, category, probabilities, Tail(keys),
                 (token_idx :> ChildNode(probabilities[token_idx + 1], child_sequences, r.node))
                     @@ sparse_array,
                 [r.st EXCEPT !.consumed = st.consumed]))
        ELSE BuildSparseArray(start_word, token_sequences, category, probabilities, Tail(keys),
                 (token_idx :> probabilities[token_idx + 1]) @@ sparse_array, st)
      ELSE BuildSparseArray(start_word, token_sequences, category, probabilities, Tail(keys),
               sparse_array, st)

_build_probability_node(start_word, token_sequences, category, st) ==
    IF token_sequences = <<>> THEN [node |-> EmptyNode, st |-> st]
    ELSE
      LET full_prompt == BuildPrompt(start_word, category)
          hit == IsCached(st.cached_prob_vectors, full_prompt)
      IN
      Bind(IF hit THEN st.cached_prob_vectors[full_prompt] ELSE get_probability_vector(full_prompt),
           LAMBDA probabilities :
      Bind(IF hit
           THEN [st EXCEPT !.contexts = Append(@, [category |-> category,
                                                   consumed |-> st.consumed,
                                                   context |-> full_prompt])]
           ELSE [cached_prob_vectors |-> (full_prompt :> probabilities) @@ st.cached_prob_vectors,
                 calls |-> Append(st.calls, full_prompt),
                 consumed |-> st.consumed,
                 contexts |-> Append(st.contexts, [category |-> category,
                                                   consumed |-> st.consumed,
                                                   context |-> full_prompt])],
           LAMBDA st1 :
      Bind(BuildSparseArray(start_word, token_sequences, category, probabilities,
                            GroupKeys(token_sequences), EmptyDict, st1),
           LAMBDA built :
      Bind(PrbSum(built.sparse_array), LAMBDA total_prob :
      Bind(IF FGt(total_prob, Zero) THEN Renormalize(built.sparse_array, total_prob)
           ELSE built.sparse_array,
           LAMBDA sparse_array :
      LET org_max == FMax(probabilities)
          val_prb_sum == PrbSum(sparse_array)
      IN [node |-> ProbabilityNode(token_sequences, sparse_array,
                       ProbabilityMetadata(org_max, val_prb_sum, MaxLen(token_sequences))),
          st |-> built.st])))))

\* the seven categories in the order they are built, with the words the
\* prompt uses for them
BuildOrder == <<[key |-> "ana", category |-> "anagram"],
                [key |-> "ola", category |-> "one-letter-added"],
                [key |-> "olr", category |-> "one-letter-removed"],
                [key |-> "olx", category |-> "one-letter-changed"],
                [key |-> "prf", category |-> "perfect-rhyme"],
                [key |-> "rch", category |-> "rich-rhyme"],
                [key |-> "sln", category |-> "slant-rhyme"]>>

RECURSIVE BuildCategories(_, _, _, _, _)
BuildCategories(start_word, valid_words, i, nodes, st) ==
    IF i > Len(BuildOrder) THEN [nodes |-> nodes, st |-> st]
    ELSE Bind(_build_probability_node(start_word, valid_words[BuildOrder[i].key],
                                      BuildOrder[i].category, st),
              LAMBDA r : BuildCategories(start_word, valid_words, i + 1,
                                         (BuildOrder[i].key :> r.node) @@ nodes, r.st))

\* the tree of a start word and the model calls its build made
_build_complete_tree(start_word, valid_words) ==
    Bind(BuildCategories(start_word, valid_words, 1, [k \in {} |-> EmptyNode], NewBuildState),
         LAMBDA r :
    [tree |-> WordProbabilityTree(PlaceholderFrequency, r.nodes["ana"],
                  [k \in {"ola", "olr", "olx"} |-> r.nodes[k]],
                  [k \in {"prf", "rch", "sln"} |-> r.nodes[k]]),
     calls |-> r.st.calls,
     contexts |-> r.st.contexts])

\* ------------------------------------------------------------ validation
Tolerance == Float(1, 1000)

RECURSIVE _validate_node(_)
\* the node as validation leaves it: renormalised in place when its
\* probabilities are off by 1e-3 or more, children validated in turn
_validate_node(node) ==
    IF node.val = NullSentinel \/ DOMAIN node.prb = {} THEN node
    ELSE
      LET total_prob == PrbSum(node.prb)
          prb_data == IF FGt(total_prob, Zero) /\ FGe(FAbsDiff(total_prob, One), Tolerance)
                      THEN Renormalize(node.prb, total_prob)
                      ELSE node.prb
      IN [node EXCEPT !.prb =
            [k \in DOMAIN prb_data |->
               IF prb_data[k].cls = "ChildNode"
               THEN [prb_data[k] EXCEPT !.child_prb = _validate_node(prb_data[k].child_prb)]
               ELSE prb_data[k]]]

\* the verdict of validate_probability_tree and the object as it leaves it.
\* Reading .ana of anything but a tree raises, which the function turns
\* into False.
validate_probability_tree(tree) ==
    IF tree.cls # "WordProbabilityTree" THEN [ok |-> FALSE, tree |-> tree]
    ELSE [ok |-> TRUE,
          tree |-> [tree EXCEPT !.ana = _validate_node(tree.ana),
                                !.olo = [k \in DOMAIN tree.olo |-> _validate_node(tree.olo[k])],
                                !.rhy = [k \in DOMAIN tree.rhy |-> _validate_node(tree.rhy[k])]]]

\* the token sequences of every category, as the scoring service prepares them
EncodeAll(words) == [i \in 1..Len(words) |-> TokenizerEncode(words[i])]

ValidWords(transformations) ==
    [ana |-> EncodeAll(transformations.anagrams),
     ola |-> EncodeAll(transformations.added_letters),
     olr |-> EncodeAll(transformations.removed_letters),
     olx |-> EncodeAll(transformations.changed_letters),
     prf |-> EncodeAll(transformations.perfect_rhymes),
     rch |-> EncodeAll(transformations.rich_rhymes),
     sln |-> EncodeAll(transformations.slant_rhymes)]

\* the build of every anchor, computed once: the builder is a pure function
\* of the anchor's word lists
BuildOf ==
    [start_word \in Anchors |->
        _build_complete_tree(start_word, ValidWords(get_comprehensive_transformations(start_word)))]

\* the tree the builder produces for an anchor
BuiltTree(start_word) == BuildOf[start_word].tree

\* the model calls one build of the anchor's tree makes
BuildCalls(start_word) == BuildOf[start_word].calls

\* --------------------------------------------------------- serialisation
\* StorageConfig.compression
compression == TRUE

Raised == [cls |-> "Exception"]

IsRaised(v) == v.cls = "Exception"

\* int(k_str), the inverse of str(k) on token ids
ParseInt(k_str) == CHOOSE k \in 0..(vocab_size + 1) : ToString(k) = k_str

RECURSIVE _node_to_dict(_)
\* _child_to_dict that forgets the sequences below the child
_child_to_dict_without_sequences(child) ==
    [cls |-> "dict", probability |-> child.probability,
     remaining_sequences |-> <<>>,
     child_prb |-> _node_to_dict(child.child_prb)]

_child_to_dict(child) ==
    [cls |-> "dict", probability |-> child.probability,
     remaining_sequences |-> child.remaining_sequences,
     child_prb |-> _node_to_dict(child.child_prb)]

_node_to_dict(node) ==
    [cls |-> "dict", val |-> node.val,
     prb |-> [k_str \in {ToString(k) : k \in DOMAIN node.prb} |->
                LET v == node.prb[ParseInt(k_str)] IN
                IF v.cls = "float" THEN v ELSE _child_to_dict(v)],
     dat |-> [cls |-> "dict", org_max |-> node.dat.org_max,
              val_prb_sum |-> node.dat.val_prb_sum, max_dep |-> node.dat.max_dep]]

_tree_to_dict(tree) ==
    [cls |-> "dict", frq |-> tree.frq, ana |-> _node_to_dict(tree.ana),
     olo |-> [k \in DOMAIN tree.olo |-> _node_to_dict(tree.olo[k])],
     rhy |-> [k \in DOMAIN tree.rhy |-> _node_to_dict(tree.rhy[k])]]

RECURSIVE _dict_to_node(_)
_dict_to_node(node_dict) ==
    ProbabilityNode(node_dict.val,
        [k \in {ParseInt(k_str) : k_str \in DOMAIN node_dict.prb} |->
            LET v == node_dict.prb[ToString(k)] IN
            IF v.cls = "float" THEN v
            ELSE ChildNode(v.probability, v.remaining_sequences, _dict_to_node(v.child_prb))],
        ProbabilityMetadata(node_dict.dat.org_max, node_dict.dat.val_prb_sum,
                            node_dict.dat.max_dep))

_dict_to_tree(tree_dict) ==
    WordProbabilityTree(tree_dict.frq, _dict_to_node(tree_dict.ana),
        [k \in DOMAIN tree_dict.olo |-> _dict_to_node(tree_dict.olo[k])],
        [k \in DOMAIN tree_dict.rhy |-> _dict_to_node(tree_dict.rhy[k])])

\* byte strings: a pickle of an object, a gzip of bytes, or bytes that are
\* neither
PickleDumps(obj) == [cls |-> "bytes", format |-> "pickle", obj |-> obj]
GzipCompress(b) == [cls |-> "bytes", format |-> "gzip", inner |-> b]
CorruptBytes == [cls |-> "bytes", format |-> "garbage"]

PickleLoads(b) == IF b.format = "pickle" THEN b.obj ELSE Raised
GzipDecompress(b) == IF b.format = "gzip" THEN b.inner ELSE Raised

\* text: base64 or hex of bytes, a JSON document, or none of these
B64Encode(b) == [cls |-> "str", format |-> "base64", bytes |-> b]
Hex(b) == [cls |-> "str", format |-> "hex", bytes |-> b]
JsonText(obj) == [cls |-> "str", format |-> "json", obj |-> obj]
NotHex == [cls |-> "str", format |-> "text"]

\* b64decode raises on text that is not base64, or yields bytes that are
\* no gzip stream
B64Decode(s) == IF s.format = "base64" THEN s.bytes ELSE Raised
FromHex(s) == IF s.format = "hex" THEN s.bytes ELSE Raised
JsonLoads(s) == IF s.format = "json" THEN s.obj ELSE Raised

_serialize_tree(tree) ==
    IF compression THEN GzipCompress(PickleDumps(_tree_to_dict(tree)))
    ELSE PickleDumps(_tree_to_dict(tree))

_deserialize_tree(bytes) ==
    Bind(IF compression THEN GzipDecompress(bytes) ELSE bytes, LAMBDA raw :
    Bind(IF IsRaised(raw) THEN Raised ELSE PickleLoads(raw), LAMBDA tree_dict :
    IF IsRaised(tree_dict) THEN Raised ELSE _dict_to_tree(tree_dict)))

\* an entry of the JSON fallback
JsonEntry(serialized) ==
    [cls |-> "dict", serialized |-> Hex(serialized),
     metadata |-> [compressed |-> compression]]

\* ------------------------------------------------------- storage service
\* _memory_cache: a dict in insertion order, as a sequence of entries
McKeys(mc) == {mc[i].key : i \in 1..Len(mc)}

McGet(mc, start_word) == (CHOOSE i \in 1..Len(mc) : mc[i].key = start_word)

\* mc[start_word] = tree: a new key goes last, a known key keeps its place
McSet(mc, start_word, tree) ==
    IF start_word \in McKeys(mc)
    THEN [i \in 1..Len(mc) |-> IF mc[i].key = start_word
                               THEN [key |-> start_word, tree |-> tree] ELSE mc[i]]
    ELSE Append(mc, [key |-> start_word, tree |-> tree])

_cache_tree_result(mc, start_word, tree) ==
    LET mc1 == McSet(mc, start_word, tree) IN
    IF Len(mc1) > cache_size THEN Tail(mc1) ELSE mc1

\* what the KV branch makes of a stored value: the tree, Raised when an
\* exception leaves the branch, or FallThrough when the branch ends
\* without a tree
FallThrough == [cls |-> "FallThrough"]

KvDecode(serialized) ==
    Bind(B64Decode(serialized), LAMBDA decoded :
    Bind(IF IsRaised(decoded) THEN Raised ELSE _deserialize_tree(decoded), LAMBDA tree :
    IF ~IsRaised(tree) THEN tree
    ELSE Bind(JsonLoads(serialized), LAMBDA tree_data :
         IF IsRaised(tree_data) THEN FallThrough
         ELSE IF "serialized" \in DOMAIN tree_data
              THEN Bind(FromHex(tree_data.serialized), LAMBDA serialized_bytes :
                   IF IsRaised(serialized_bytes) THEN Raised
                   ELSE _deserialize_tree(serialized_bytes))
              ELSE FallThrough)))

\* the JSON branch: the entry's tree, None when the key is missing, Raised
\* when the entry cannot be decoded
JsonDecode(json_data, start_word) ==
    IF json_data[start_word] = None THEN None
    ELSE IF "serialized" \notin DOMAIN json_data[start_word] THEN Raised
    ELSE Bind(FromHex(json_data[start_word].serialized), LAMBDA serialized :
         IF IsRaised(serialized) THEN Raised ELSE _deserialize_tree(serialized))

\* _get_from_storage that asks the JSON fallback before the key-value store
_get_from_storage_json_first(mode, kv, json_data, start_word, kv_fault) ==
    LET json_tree == JsonDecode(json_data, start_word)
        from_json == IF IsRaised(json_tree) THEN None ELSE json_tree
        from_kv == IF kv_fault \/ kv[start_word] = None THEN None
                   ELSE LET tree == KvDecode(kv[start_word]) IN
                        IF tree.cls = "WordProbabilityTree" THEN tree ELSE None
    IN
    CASE mode = "redis" -> from_kv
      [] mode = "hybrid" -> IF json_data[start_word] # None THEN from_json ELSE from_kv
      [] mode = "json" -> from_json

\* any exception inside _get_from_storage ends it with None
_get_from_storage(mode, kv, json_data, start_word, kv_fault) ==
    Bind(JsonDecode(json_data, start_word), LAMBDA json_tree :
    Bind(IF IsRaised(json_tree) THEN None ELSE json_tree, LAMBDA from_json :
    CASE mode = "redis" ->
           IF kv_fault \/ kv[start_word] = None THEN None
           ELSE Bind(KvDecode(kv[start_word]), LAMBDA tree :
                IF tree.cls = "WordProbabilityTree" THEN tree ELSE None)
      [] mode = "hybrid" ->
           IF kv_fault THEN None
           ELSE IF kv[start_word] # None
           THEN Bind(KvDecode(kv[start_word]), LAMBDA tree :
                IF tree.cls = "WordProbabilityTree" THEN tree
                ELSE IF IsRaised(tree) THEN None
                ELSE from_json)
           ELSE from_json
      [] mode = "json" -> from_json))

_storage_exists(mode, kv, json_data, start_word, kv_fault) ==
    CASE mode = "redis" -> ~kv_fault /\ kv[start_word] # None
      [] mode = "hybrid" -> ~kv_fault /\ (kv[start_word] # None \/ json_data[start_word] # None)
      [] mode = "json" -> json_data[start_word] # None

has_probability_tree(mc, mode, kv, json_data, start_word, kv_fault) ==
    start_word \in McKeys(mc) \/ _storage_exists(mode, kv, json_data, start_word, kv_fault)

\* the tree returned (or None) and the memory cache afterwards
get_probability_tree(mc, mode, kv, json_data, start_word, kv_fault) ==
    IF start_word \in McKeys(mc)
    THEN [tree |-> mc[McGet(mc, start_word)].tree, memory_cache |-> mc]
    ELSE Bind(_get_from_storage(mode, kv, json_data, start_word, kv_fault), LAMBDA tree :
         IF tree # None
         THEN [tree |-> tree, memory_cache |-> _cache_tree_result(mc, start_word, tree)]
         ELSE [tree |-> None, memory_cache |-> mc])

\* the JSON file as it is on disk
FileOf(content) == [readable |-> TRUE, content |-> content]
NoEntries == [a \in Anchors |-> None]
UnreadableFile == [readable |-> FALSE, content |-> NoEntries]

\* json_fault: "none", "open" (the file cannot be opened for writing) or
\* "write" (it was truncated and the dump failed)
_save_json_data(file, json_data, json_fault) ==
    CASE json_fault = "none" -> FileOf(json_data)
      [] json_fault = "open" -> file
      [] json_fault = "write" -> UnreadableFile

\* _serialize_and_store that writes the key-value store alone in hybrid mode
_serialize_and_store_kv_only(mode, kv, json_data, file, start_word, tree, kv_fault, json_fault) ==
    LET serialized == _serialize_tree(tree)
        encoded_data == B64Encode(serialized)
        unchanged == [raised |-> TRUE, redis |-> kv, data |-> json_data, json_file |-> file]
        data1 == [json_data EXCEPT ![start_word] = JsonEntry(serialized)]
    IN
    CASE mode \in {"redis", "hybrid"} ->
           IF kv_fault THEN unchanged
           ELSE [unchanged EXCEPT !.raised = FALSE, !.redis = [kv EXCEPT ![start_word] = encoded_data]]
      [] mode = "json" ->
           [raised |-> json_fault # "none", redis |-> kv, data |-> data1,
            json_file |-> _save_json_data(file, data1, json_fault)]

\* the strata after _serialize_and_store, and whether it raised
_serialize_and_store(mode, kv, json_data, file, start_word, tree, kv_fault, json_fault) ==
    Bind(_serialize_tree(tree), LAMBDA serialized :
    Bind([json_data EXCEPT ![start_word] = JsonEntry(serialized)], LAMBDA data1 :
    LET encoded_data == B64Encode(serialized)
        unchanged == [raised |-> TRUE, redis |-> kv, data |-> json_data, json_file |-> file]
    IN
    CASE mode = "redis" ->
           IF kv_fault THEN unchanged
           ELSE [unchanged EXCEPT !.raised = FALSE, !.redis = [kv EXCEPT ![start_word] = encoded_data]]
      [] mode = "hybrid" ->
           IF kv_fault THEN unchanged
           ELSE [raised |-> json_fault # "none",
                 redis |-> [kv EXCEPT ![start_word] = encoded_data],
                 data |-> data1,
                 json_file |-> _save_json_data(file, data1, json_fault)]
      [] mode = "json" ->
           [raised |-> json_fault # "none", redis |-> kv, data |-> data1,
            json_file |-> _save_json_data(file, data1, json_fault)]))

\* the memory cache is updated first, whatever happens to the stores
store_probability_tree(mc, mode, kv, json_data, file, start_word, tree, kv_fault, json_fault) ==
    Bind(_serialize_and_store(mode, kv, json_data, file, start_word, tree, kv_fault, json_fault),
         LAMBDA r :
    [raised |-> r.raised, memory_cache |-> McSet(mc, start_word, tree),
     redis |-> r.redis, data |-> r.data, json_file |-> r.json_file])

_load_json_data(file) == IF file.readable THEN file.content ELSE NoEntries

\* ----------------------------------------------------------- tree lookup
RECURSIVE TraverseFrom(_, _, _)
\* the loop of _traverse_probability_node over the remaining tokens
TraverseFrom(current_node, tokens, total_prob) ==
    IF tokens = <<>> THEN total_prob
    ELSE IF Head(tokens) \notin DOMAIN current_node.prb THEN Zero
    ELSE LET prob_value == current_node.prb[Head(tokens)] IN
         IF prob_value.cls = "float" THEN FMul(total_prob, prob_value)
         ELSE TraverseFrom(prob_value.child_prb, Tail(tokens),
                           FMul(total_prob, prob_value.probability))

_traverse_probability_node(node, token_sequence) ==
    IF token_sequence = <<>> THEN One ELSE TraverseFrom(node, token_sequence, One)

CategoryNode(tree, category, subcategory) ==
    CASE category = "ana" -> tree.ana
      [] category = "olo" -> tree.olo[subcategory]
      [] category = "rhy" -> tree.rhy[subcategory]

get_sequence_probability(tree, category, subcategory, token_sequence) ==
    _traverse_probability_node(CategoryNode(tree, category, subcategory), token_sequence)

RECURSIVE RenormFactor(_, _, _)
\* the product of val_prb_sum along the path; Raised stands for the early
\* return 0.0 on a token that is missing
RenormFactor(current_node, tokens, total_renorm_factor) ==
    IF tokens = <<>> THEN total_renorm_factor
    ELSE IF Head(tokens) \notin DOMAIN current_node.prb THEN Raised
    ELSE LET factor == FMul(total_renorm_factor, current_node.dat.val_prb_sum)
             prob_value == current_node.prb[Head(tokens)] IN
         IF prob_value.cls = "ChildNode"
         THEN RenormFactor(prob_value.child_prb, Tail(tokens), factor)
         ELSE factor

get_creativity_score(tree, category, subcategory, token_sequence) ==
    Bind(get_sequence_probability(tree, category, subcategory, token_sequence),
         LAMBDA sequence_prob :
    Bind(CategoryNode(tree, category, subcategory), LAMBDA node :
    Bind(RenormFactor(node, token_sequence, One), LAMBDA total_renorm_factor :
    IF sequence_prob = Zero THEN Zero
    ELSE IF IsRaised(total_renorm_factor) THEN Zero
    ELSE IF FGt(node.dat.org_max, Zero)
         THEN FDiv(FMul(sequence_prob, total_renorm_factor), node.dat.org_max)
         ELSE Zero)))

\* ------------------------------------------------------- scoring service
CategoryKeys == {"prf", "rch", "sln", "ana", "ola", "olr", "olx"}

\* category -> (main category, subcategory) of the tree
category_mapping(transformation_category) ==
    CASE transformation_category \in {"prf", "rch", "sln"} -> <<"rhy", transformation_category>>
      [] transformation_category = "ana" -> <<"ana", "ana">>
      [] transformation_category \in {"ola", "olr", "olx"} -> <<"olo", transformation_category>>

\* the word list of a category
CategoryWords(transformations, category) ==
    CASE category = "prf" -> transformations.perfect_rhymes
      [] category = "rch" -> transformations.rich_rhymes
      [] category = "sln" -> transformations.slant_rhymes
      [] category = "ana" -> transformations.anagrams
      [] category = "ola" -> transformations.added_letters
      [] category = "olr" -> transformations.removed_letters
      [] category = "olx" -> transformations.changed_letters

BaseScores(category) ==
    CASE category \in {"ola", "olr", "olx"} -> (3 :> 100) @@ (4 :> 200) @@ (5 :> 300) @@ (6 :> 400) @@ (7 :> 500)
      [] category = "prf" -> (3 :> 50) @@ (4 :> 100) @@ (5 :> 150) @@ (6 :> 200) @@ (7 :> 250)
      [] category = "rch" -> (3 :> 150) @@ (4 :> 300) @@ (5 :> 450) @@ (6 :> 600) @@ (7 :> 750)
      [] category = "ana" -> (3 :> 100) @@ (4 :> 300) @@ (5 :> 500) @@ (6 :> 700) @@ (7 :> 900)
      [] category = "sln" -> (3 :> 75) @@ (4 :> 150) @@ (5 :> 225) @@ (6 :> 300) @@ (7 :> 375)
      [] OTHER -> [k \in {} |-> 0]

DefaultBaseScore == 100

_get_base_score(category, word_length) ==
    IF word_length \in DOMAIN BaseScores(category) THEN BaseScores(category)[word_length]
    ELSE DefaultBaseScore

Half == Float(1, 2)

\* base_score * 0.5 * creativity_score; a creativity that has no exact
\* fraction (the layer-RMS scheme) keeps the bonus symbolic
_calculate_category_bonus(category, creativity_score, word_length) ==
    IF creativity_score.cls = "float"
    THEN FMul(FMul(Float(_get_base_score(category, word_length), 1), Half), creativity_score)
    ELSE [cls |-> "expr", op |-> "base*0.5*creativity",
          base |-> _get_base_score(category, word_length), creativity |-> creativity_score]

TotalScore(base_score, category_bonus) ==
    IF category_bonus.cls = "float" THEN FAdd(Float(base_score, 1), category_bonus)
    ELSE [cls |-> "expr", op |-> "base+bonus", base |-> base_score, bonus |-> category_bonus]

TokenizerDecode(token) == "t" \o ToString(token)

PromptTemplate(start_word, category_name) ==
    LET base_context == start_word \o " is a word" IN
    CASE category_name = "prf" -> base_context \o " that rhymes perfectly with words like"
      [] category_name = "rch" -> base_context \o " whose homophones are words like"
      [] category_name = "sln" -> base_context \o " that rhymes partially with words like"
      [] category_name = "ana" -> base_context \o " whose letters can be rearranged to form anagrams like"
      [] category_name = "ola" -> base_context \o " which with the addition of one letter can become words like"
      [] category_name = "olr" -> base_context \o " which with one letter removed can become words like"
      [] category_name = "olx" -> base_context \o " which with the change of a single letter can become words like"
      [] OTHER -> base_context \o " that relates to words like"

\* the prompt with the candidate as the one example word
_get_category_prompt(start_word, category_name, example_word) ==
    PromptTemplate(start_word, category_name) \o " " \o example_word \o ". "

RECURSIVE FallbackContexts(_, _)
\* the contexts the token loop asks the model for: the prompt, then the
\* prompt followed by each consumed token's text and a space
FallbackContexts(current_context, tokens) ==
    IF tokens = <<>> THEN <<>>
    ELSE <<current_context>> \o
         FallbackContexts(current_context \o TokenizerDecode(Head(tokens)) \o " ", Tail(tokens))

\* the raw probabilities of the candidate's tokens, one model call each;
\* the creativity is sigmoid(3 * (1 - rms - 0.5)) of them, kept symbolic
calculate_multi_token_probability(prompt, candidate_word) ==
    LET candidate_tokens == TokenizerEncode(candidate_word)
        contexts == FallbackContexts(prompt, candidate_tokens)
        token_probabilities ==
            [i \in 1..Len(candidate_tokens) |->
                get_probability_vector(contexts[i])[candidate_tokens[i] + 1]]
    IN
    IF candidate_tokens = <<>>
    THEN [creativity_score |-> Zero, calls |-> <<>>]
    ELSE [creativity_score |-> [cls |-> "expr", op |-> "smooth(1-rms)", of |-> token_probabilities],
          calls |-> contexts]

ScoringResult(transformation_category, creativity_score, word_length, using_probability_tree) ==
    Bind(_get_base_score(transformation_category, word_length), LAMBDA base_score :
    Bind(_calculate_category_bonus(transformation_category, creativity_score, word_length),
         LAMBDA category_bonus :
    [creativity_score |-> creativity_score, base_score |-> base_score,
     category_bonus |-> category_bonus, total_score |-> TotalScore(base_score, category_bonus),
     using_probability_tree |-> using_probability_tree]))

\* the result and the model calls of the fallback
_calculate_transformation_score_fallback(start_word, candidate_word, transformation_category) ==
    Bind(_get_category_prompt(start_word, transformation_category, candidate_word), LAMBDA prompt :
    Bind(calculate_multi_token_probability(prompt, candidate_word), LAMBDA prob_result :
    [result |-> ScoringResult(transformation_category, prob_result.creativity_score,
                              Len(candidate_word), FALSE),
     calls |-> prob_result.calls]))

\* ------------------------------------------------------------- the state
VARIABLES
    storage_type,    \* StorageConfig.storage_type
    redis,           \* the key-value store: anchor -> text stored under tree:{anchor}, or None
    data,            \* OptimizedStorageService.data, the JSON fallback in memory
    json_file,       \* the JSON fallback file on disk
    memory_cache,    \* OptimizedStorageService._memory_cache
    builder_cache,   \* ProbabilityTreeBuilder._cache: anchor -> tree, or None
    populate,        \* the populate_from_file call in progress, if any
    last             \* the last operation, its inputs and its outcome

vars == <<storage_type, redis, data, json_file, memory_cache, builder_cache, populate, last>>

Tuple(a, b) == [cls |-> "tuple", items |-> <<a, b>>]

TimingMetrics == [cls |-> "dict"]

\* the tuple returned, the builder cache afterwards, the model calls made
\* and whether a build ran
get_or_build_tree(cache, start_word, valid_words) ==
    IF cache[start_word] # None
    THEN [value |-> Tuple(cache[start_word], None), cache |-> cache, calls |-> <<>>, built |-> FALSE]
    ELSE Bind(IF valid_words = ValidWords(get_comprehensive_transformations(start_word))
              THEN BuildOf[start_word]
              ELSE _build_complete_tree(start_word, valid_words),
              LAMBDA b :
         Bind(validate_probability_tree(b.tree), LAMBDA v :
         IF v.ok
         THEN [value |-> Tuple(v.tree, TimingMetrics),
               cache |-> [cache EXCEPT ![start_word] = v.tree],
               calls |-> b.calls, built |-> TRUE]
         ELSE [value |-> Tuple(None, None), cache |-> cache, calls |-> b.calls, built |-> TRUE]))

\* _get_or_build_probability_tree: the tree handed to the scorer (None when
\* there is none), the state of every cache and stratum afterwards, the
\* model calls made, and what happened on the way
_get_or_build_probability_tree(start_word, kv_fault, json_fault) ==
    LET none == [tree |-> None, memory_cache |-> memory_cache, redis |-> redis, data |-> data,
                 json_file |-> json_file, builder_cache |-> builder_cache, calls |-> <<>>,
                 built |-> FALSE, validated |-> "skipped", stored |-> FALSE]
    IN
    IF has_probability_tree(memory_cache, storage_type, redis, data, start_word, kv_fault)
    THEN Bind(get_probability_tree(memory_cache, storage_type, redis, data, start_word, kv_fault),
              LAMBDA g :
         \* in hybrid mode redis.exists is asked next; when it raises the tree is dropped
         [none EXCEPT !.tree = IF storage_type = "hybrid" /\ kv_fault THEN None ELSE g.tree,
                      !.memory_cache = g.memory_cache])
    ELSE Bind(ValidWords(get_comprehensive_transformations(start_word)), LAMBDA valid_words :
         Bind(get_or_build_tree(builder_cache, start_word, valid_words), LAMBDA b :
         Bind(b.value, LAMBDA tree :
         Bind(validate_probability_tree(tree), LAMBDA v :
         Bind([none EXCEPT !.builder_cache = b.cache, !.calls = b.calls, !.built = b.built],
              LAMBDA built :
         IF v.ok
         THEN Bind(store_probability_tree(memory_cache, storage_type, redis, data, json_file,
                                          start_word, v.tree, kv_fault, json_fault),
                   LAMBDA s :
              [built EXCEPT !.tree = IF s.raised THEN None ELSE v.tree,
                            !.memory_cache = s.memory_cache, !.redis = s.redis,
                            !.data = s.data, !.json_file = s.json_file,
                            !.validated = "passed", !.stored = ~s.raised])
         ELSE [built EXCEPT !.validated = "failed"])))))

\* calculate_transformation_score on top of it
calculate_transformation_score(start_word, candidate_word, transformation_category, kv_fault, json_fault) ==
    Bind(_get_or_build_probability_tree(start_word, kv_fault, json_fault), LAMBDA t :
    LET mapping == category_mapping(transformation_category)
        candidate_tokens == TokenizerEncode(candidate_word)
    IN
    IF t.tree = None \/ candidate_tokens = <<>>
    THEN Bind(_calculate_transformation_score_fallback(start_word, candidate_word,
                                                       transformation_category),
              LAMBDA fallback :
         [t EXCEPT !.calls = t.calls \o fallback.calls] @@ [result |-> fallback.result])
    ELSE t @@ [result |-> ScoringResult(transformation_category,
                              get_creativity_score(t.tree, mapping[1], mapping[2], candidate_tokens),
                              Len(candidate_word), TRUE)])

\* -------------------------------------------------------- initial states
StorageTypes == {"json", "redis", "hybrid"}

JsonFaults == {"none", "open", "write"}

GoodBytesOf == [start_word \in Anchors |-> _serialize_tree(BuiltTree(start_word))]

GoodBytes(start_word) == GoodBytesOf[start_word]

\* the anchors whose stored values may be damaged or old when the service starts
AgedAnchors == {"cat"}

\* what the key-value store may hold for an anchor before the service
\* starts: nothing, a value in the old JSON format (intact or damaged), or
\* base64 text of bytes that are no tree
InitialKvValues(start_word) ==
    IF start_word \notin AgedAnchors THEN {None} ELSE
    {None,
     JsonText([cls |-> "dict", serialized |-> Hex(GoodBytes(start_word))]),
     JsonText([cls |-> "dict", serialized |-> Hex(CorruptBytes)]),
     B64Encode(CorruptBytes)}

\* what the JSON file may hold for an anchor: nothing, a tree, or an entry
\* whose bytes are no tree
InitialJsonEntries(start_word) ==
    IF start_word \notin AgedAnchors THEN {None} ELSE
    {None, JsonEntry(GoodBytes(start_word)), JsonEntry(CorruptBytes)}

NoPopulate == [phase |-> "idle"]

Init ==
    /\ storage_type \in StorageTypes
    /\ json_file \in {FileOf(c) : c \in {f \in [Anchors -> UNION {InitialJsonEntries(a) : a \in Anchors}] :
                                           \A a \in Anchors : f[a] \in (IF storage_type = "redis" THEN {None}
                                                                         ELSE InitialJsonEntries(a))}}
    /\ data = IF storage_type = "redis" THEN NoEntries ELSE _load_json_data(json_file)
    /\ redis \in {f \in [Anchors -> UNION {InitialKvValues(a) : a \in Anchors}] :
                    \A a \in Anchors : f[a] \in (IF storage_type = "json" THEN {None}
                                                  ELSE InitialKvValues(a))}
    /\ memory_cache = <<>>
    /\ builder_cache = [a \in Anchors |-> None]
    /\ populate = NoPopulate
    /\ last = [op |-> "init"]

\* --------------------------------------------------------------- actions
MemTree(mc, start_word) ==
    IF start_word \in McKeys(mc) THEN mc[McGet(mc, start_word)].tree ELSE None

\* a fault of the key-value store can only happen where there is one
KvFaults == IF storage_type = "json" THEN {FALSE} ELSE BOOLEAN

\* a fault of the JSON file can only happen where it is written
FileFaults == IF storage_type = "redis" THEN {"none"} ELSE JsonFaults

\* put: store_probability_tree(start_word, tree) with the builder's tree
Put(start_word, kv_fault, json_fault) ==
    \E s \in {store_probability_tree(memory_cache, storage_type, redis, data, json_file,
                                      start_word, BuiltTree(start_word), kv_fault, json_fault)} :
       /\ memory_cache' = s.memory_cache
       /\ redis' = s.redis
       /\ data' = s.data
       /\ json_file' = s.json_file
       /\ last' = [op |-> "put", start_word |-> start_word, kv_fault |-> kv_fault,
                   json_fault |-> json_fault, raised |-> s.raised]
       /\ UNCHANGED <<storage_type, builder_cache, populate>>

\* get: get_probability_tree(start_word)
Get(start_word, kv_fault) ==
    \E g \in {get_probability_tree(memory_cache, storage_type, redis, data, start_word, kv_fault)} :
    /\ memory_cache' = g.memory_cache
    /\ last' = [op |-> "get", start_word |-> start_word, kv_fault |-> kv_fault,
                result |-> g.tree, hit |-> start_word \in McKeys(memory_cache)]
    /\ UNCHANGED <<storage_type, redis, data, json_file, builder_cache, populate>>

clear_memory_cache ==
    /\ memory_cache # <<>>
    /\ memory_cache' = <<>>
    /\ last' = [op |-> "clear_memory_cache"]
    /\ UNCHANGED <<storage_type, redis, data, json_file, builder_cache, populate>>

\* the process ends and a new one constructs the services: the caches are
\* empty, the JSON fallback is loaded from the file, a populate run in
\* progress is gone
Restart ==
    /\ last.op # "init"
    /\ memory_cache' = <<>>
    /\ builder_cache' = [a \in Anchors |-> None]
    /\ data' = IF storage_type = "redis" THEN NoEntries ELSE _load_json_data(json_file)
    /\ populate' = NoPopulate
    /\ last' = [op |-> "init"]
    /\ UNCHANGED <<storage_type, redis, json_file>>

\* no stratum and no cache holds anything for the anchor
NothingStored(start_word) ==
    /\ start_word \notin McKeys(memory_cache)
    /\ redis[start_word] = None
    /\ data[start_word] = None

\* one scoring call: calculate_transformation_score(start_word, candidate_word, category)
Score(start_word, candidate_word, category, kv_fault, json_fault) ==
    \E r \in {calculate_transformation_score(start_word, candidate_word, category,
                                               kv_fault, json_fault)} :
    LET again == /\ last.op = "score"
                 /\ last.start_word = start_word
                 /\ last.candidate_word = candidate_word
                 /\ last.category = category
    IN
    /\ memory_cache' = r.memory_cache
    /\ redis' = r.redis
    /\ data' = r.data
    /\ json_file' = r.json_file
    /\ builder_cache' = r.builder_cache
    /\ last' = [op |-> "score", start_word |-> start_word, candidate_word |-> candidate_word,
                category |-> category, kv_fault |-> kv_fault, result |-> r.result,
                returned |-> r.tree # None, calls |-> r.calls, built |-> r.built,
                validated |-> r.validated, stored |-> r.stored,
                fresh |-> NothingStored(start_word),
                first |-> builder_cache[start_word] = None,
                again |-> again,
                previous |-> IF again THEN last.result ELSE None]
    /\ UNCHANGED <<storage_type, populate>>

\* the scoring calls callers make: a start word, one of its categories and
\* a word of that category
ScoreRequests ==
    {<<"cat", "prf", "hat">>, <<"cat", "prf", "that">>, <<"dog", "ana", "god">>}

\* --------------------------------------------- score_candidate_comprehensive
\* categories_to_check, in the order of the dict
CategoryOrder == <<"prf", "rch", "sln", "ana", "ola", "olr", "olx">>

\* a scan that takes every category for valid
EveryCategory(transformations, candidate_word) == CategoryOrder

\* the categories whose word list holds the candidate
ValidCategories(transformations, candidate_word) ==
    SelectSeq(CategoryOrder, LAMBDA category :
        \E i \in 1..Len(CategoryWords(transformations, category)) :
            CategoryWords(transformations, category)[i] = candidate_word)

\* the words callers ask a score for
CandidateWords ==
    {"cat", "dog", "zebra", "hat", "bat", "that", "act", "chat", "god", "fog"}

\* total_score += score_result.total_score
SumOfScores(category_results) ==
    IF \A i \in 1..Len(category_results) : category_results[i].result.total_score.cls = "float"
    THEN FSum([i \in 1..Len(category_results) |-> category_results[i].result.total_score])
    ELSE [cls |-> "expr", op |-> "sum",
          of |-> [i \in 1..Len(category_results) |-> category_results[i].result.total_score]]

\* the handler up to its loop: without a valid category it returns at once
ComprehensiveStart(start_word, candidate_word) ==
    /\ last.op # "scoring_categories"
    /\ \E valid \in {ValidCategories(get_comprehensive_transformations(start_word),
                                      candidate_word)} :
          last' = IF valid = <<>>
                  THEN [op |-> "score_candidate_comprehensive", start_word |-> start_word,
                        candidate_word |-> candidate_word, success |-> FALSE,
                        message |-> "is not a valid transformation", data |-> None,
                        calls |-> <<>>]
                  ELSE [op |-> "scoring_categories", start_word |-> start_word,
                        candidate_word |-> candidate_word, pending |-> valid,
                        category_results |-> <<>>, calls |-> <<>>]
    /\ UNCHANGED <<storage_type, redis, data, json_file, memory_cache, builder_cache, populate>>

\* one turn of the loop: calculate_transformation_score_with_cache for the
\* next valid category
ComprehensiveCategory(kv_fault) ==
    /\ last.op = "scoring_categories"
    /\ last.pending # <<>>
    /\ \E r \in {calculate_transformation_score(last.start_word, last.candidate_word,
                                               Head(last.pending), kv_fault, "none")} :
          /\ memory_cache' = r.memory_cache
          /\ redis' = r.redis
          /\ data' = r.data
          /\ json_file' = r.json_file
          /\ builder_cache' = r.builder_cache
          /\ last' = [last EXCEPT !.pending = Tail(@),
                                  !.category_results =
                                      Append(@, [category |-> Head(last.pending),
                                                 result |-> r.result]),
                                  !.calls = @ \o r.calls]
    /\ UNCHANGED <<storage_type, populate>>

\* after the loop: the answer with the scores of the valid categories
ComprehensiveFinish ==
    /\ last.op = "scoring_categories"
    /\ last.pending = <<>>
    /\ last' = [op |-> "score_candidate_comprehensive", start_word |-> last.start_word,
                candidate_word |-> last.candidate_word, success |-> TRUE,
                message |-> "Calculated comprehensive score",
                data |-> [valid_categories |->
                              [i \in 1..Len(last.category_results) |->
                                  last.category_results[i].category],
                          total_score |-> SumOfScores(last.category_results),
                          category_count |-> Len(last.category_results),
                          category_results |-> last.category_results],
                calls |-> last.calls]
    /\ UNCHANGED <<storage_type, redis, data, json_file, memory_cache, builder_cache, populate>>

ComprehensiveNext ==
    \/ \E start_word \in Anchors, candidate_word \in CandidateWords :
          ComprehensiveStart(start_word, candidate_word)
    \/ \E kv_fault \in KvFaults : ComprehensiveCategory(kv_fault)
    \/ ComprehensiveFinish

ComprehensiveSpec == Init /\ [][ComprehensiveNext]_vars

\* ------------------------------------------------------ populate_from_file
\* files a caller may pass besides the service's own JSON file: one with a
\* tree for every anchor (for "cat" another tree than the builder's), one
\* with bytes that are no tree and an entry without 'serialized'
PopulateFiles ==
    {FileOf([a \in Anchors |-> JsonEntry(GoodBytes("dog"))]),
     FileOf([a \in Anchors |-> IF a = "cat" THEN JsonEntry(CorruptBytes)
                               ELSE [cls |-> "dict", metadata |-> [compressed |-> compression]]]),
     UnreadableFile}

FileKeys(file) == {a \in Anchors : file.content[a] # None}

\* a queue that takes the keys the store holds as well
TreesToAddWithoutCheck(file, kv, check_faults) ==
    {word \in FileKeys(file) :
        /\ word \notin check_faults
        /\ "serialized" \in DOMAIN file.content[word]
        /\ ~IsRaised(FromHex(file.content[word].serialized))}

\* the keys populate_from_file queues: those of the file that the store
\* does not hold and whose entry has hex text under 'serialized'
TreesToAdd(file, kv, check_faults) ==
    {word \in FileKeys(file) :
        /\ word \notin check_faults
        /\ kv[word] = None
        /\ "serialized" \in DOMAIN file.content[word]
        /\ ~IsRaised(FromHex(file.content[word].serialized))}

\* new_trees: the number of tasks that returned True
CountTrue(results) == Cardinality({w \in DOMAIN results : results[w]})

\* the first half of populate_from_file, up to the await: load the file,
\* ask the store for every key, queue the encoded bytes of the keys it
\* does not hold.  check_faults: the keys whose lookup raised.
\* Without anything to store the call returns at once.
PopulateStart(file, check_faults) ==
    LET in_kv == storage_type \in {"redis", "hybrid"}
        queued == IF ~file.readable \/ ~in_kv THEN {} ELSE TreesToAdd(file, redis, check_faults)
        trees_to_add == [word \in queued |-> B64Encode(FromHex(file.content[word].serialized))]
        total_trees == IF file.readable THEN Cardinality(FileKeys(file)) ELSE 0
        existed == IF in_kv THEN {word \in Anchors : redis[word] # None} ELSE {}
        rerun == last.op = "populate" /\ last.file = file /\ last.clean
        prev_added == IF rerun THEN last.new_trees_added ELSE 0
    IN
    /\ populate.phase = "idle"
    /\ check_faults \subseteq FileKeys(file)
    /\ check_faults # {} => in_kv /\ file.readable
    /\ IF queued = {}
       THEN /\ populate' = NoPopulate
            /\ last' = [op |-> "populate", file |-> file, new_trees_added |-> 0,
                        total_processed |-> total_trees, written |-> {},
                        clean |-> check_faults = {}, rerun |-> rerun,
                        prev_added |-> prev_added]
       ELSE /\ populate' = [phase |-> "storing", file |-> file, trees_to_add |-> trees_to_add,
                            pending |-> queued, results |-> [word \in queued |-> FALSE],
                            written |-> {}, total_trees |-> total_trees, existed |-> existed,
                            clean |-> check_faults = {}, rerun |-> rerun,
                            prev_added |-> prev_added]
            /\ last' = [op |-> "populate_start", file |-> file]
    /\ UNCHANGED <<storage_type, redis, data, json_file, memory_cache, builder_cache>>

\* one store_tree task: redis.set in a worker thread; a set that raises
\* yields False
PopulateStore(word, kv_fault) ==
    /\ populate.phase = "storing"
    /\ word \in populate.pending
    /\ redis' = IF kv_fault THEN redis ELSE [redis EXCEPT ![word] = populate.trees_to_add[word]]
    /\ populate' = [populate EXCEPT !.pending = @ \ {word},
                                    !.results = [@ EXCEPT ![word] = ~kv_fault],
                                    !.written = IF kv_fault THEN @ ELSE @ \cup {word},
                                    !.clean = @ /\ ~kv_fault]
    /\ last' = [op |-> "populate_store", word |-> word, kv_fault |-> kv_fault]
    /\ UNCHANGED <<storage_type, data, json_file, memory_cache, builder_cache>>

\* gather has every result: count the True ones and return
PopulateFinish ==
    /\ populate.phase = "storing"
    /\ populate.pending = {}
    /\ populate' = NoPopulate
    /\ last' = [op |-> "populate", file |-> populate.file,
                new_trees_added |-> CountTrue(populate.results),
                total_processed |-> populate.total_trees,
                written |-> populate.written,
                clean |-> populate.clean, rerun |-> populate.rerun,
                prev_added |-> populate.prev_added]
    /\ UNCHANGED <<storage_type, redis, data, json_file, memory_cache, builder_cache>>

\* ------------------------------------------------------ serialisation alone
\* the trees handed to the round trip: the builder's tree of every anchor
\* for every selection of its words
RECURSIVE SubSeqs(_)
SubSeqs(s) ==
    IF s = <<>> THEN {<<>>}
    ELSE LET rest == SubSeqs(Tail(s)) IN rest \cup {<<Head(s)>> \o r : r \in rest}

RoundTripTrees ==
    UNION {{_build_complete_tree(a, [ValidWords(get_comprehensive_transformations(a))
                                        EXCEPT !.ana = ana, !.olx = olx, !.prf = prf]).tree :
               ana \in SubSeqs(ValidWords(get_comprehensive_transformations(a)).ana),
               olx \in SubSeqs(ValidWords(get_comprehensive_transformations(a)).olx),
               prf \in SubSeqs(ValidWords(get_comprehensive_transformations(a)).prf)} :
           a \in Anchors}

RoundTripInit ==
    /\ storage_type = "json"
    /\ json_file = FileOf(NoEntries)
    /\ data = NoEntries
    /\ redis = NoEntries
    /\ memory_cache = <<>>
    /\ builder_cache = [a \in Anchors |-> None]
    /\ populate = NoPopulate
    /\ \E tree \in RoundTripTrees : last = [op |-> "tree", tree |-> tree]

Serialize ==
    /\ last.op = "tree"
    /\ last' = [op |-> "serialized", tree |-> last.tree, bytes |-> _serialize_tree(last.tree)]
    /\ UNCHANGED <<storage_type, redis, data, json_file, memory_cache, builder_cache, populate>>

Deserialize ==
    /\ last.op = "serialized"
    /\ last' = [op |-> "deserialized", tree |-> last.tree, back |-> _deserialize_tree(last.bytes)]
    /\ UNCHANGED <<storage_type, redis, data, json_file, memory_cache, builder_cache, populate>>

RoundTripNext == Serialize \/ Deserialize

RoundTripSpec == RoundTripInit /\ [][RoundTripNext]_vars

\* ------------------------------------------------------------ base scores
\* the longest candidate a base score is asked for
MaxWordLength == 8

\* the number of entries _base_score_cache is let grow to
MaxCachedScores == 2

\* the service starts with an empty _base_score_cache
BaseScoreInit ==
    /\ storage_type = "json"
    /\ json_file = FileOf(NoEntries)
    /\ data = NoEntries
    /\ redis = NoEntries
    /\ memory_cache = <<>>
    /\ builder_cache = [a \in Anchors |-> None]
    /\ populate = NoPopulate
    /\ last = [op |-> "base_score_init", _base_score_cache |-> <<>>]

\* EnhancedScoringService._get_base_score with its cache: a sequence of
\* entries [key, base_score]
GetBaseScore(category, word_length) ==
    /\ \/ Len(last._base_score_cache) < MaxCachedScores
       \/ \E i \in 1..Len(last._base_score_cache) :
             last._base_score_cache[i].key = <<category, word_length>>
    /\ \E base_score \in
          {IF \E i \in 1..Len(last._base_score_cache) :
                 last._base_score_cache[i].key = <<category, word_length>>
           THEN last._base_score_cache[
                    CHOOSE i \in 1..Len(last._base_score_cache) :
                        last._base_score_cache[i].key = <<category, word_length>>].base_score
           ELSE _get_base_score(category, word_length)} :
          last' = [op |-> "base_score", category |-> category, word_length |-> word_length,
                   base_score |-> base_score,
                   _base_score_cache |->
                       IF \E i \in 1..Len(last._base_score_cache) :
                             last._base_score_cache[i].key = <<category, word_length>>
                       THEN last._base_score_cache
                       ELSE Append(last._base_score_cache,
                                   [key |-> <<category, word_length>>,
                                    base_score |-> base_score])]
    /\ UNCHANGED <<storage_type, redis, data, json_file, memory_cache, builder_cache, populate>>

BaseScoreNext ==
    \E category \in CategoryKeys \cup {"other"}, word_length \in 6..MaxWordLength :
        GetBaseScore(category, word_length)

BaseScoreSpec == BaseScoreInit /\ [][BaseScoreNext]_vars

\* ---------------------------------------------------------- category bonus
\* the number of bonus calls a service is followed for
MaxBonusCalls == 2

\* len(self._bonus_cache) < 1000
BonusCacheLimit == 1000

\* the creativity scores of the calls: 0.25, 0.5, 0.5004 and 1.0
CreativityScores == {Float(1, 4), Float(1, 2), Float(1251, 2500), One}

\* round(x, 3) of a float that is not negative, ties to the even neighbour
PyRound3(x) ==
    Float(IF 2 * ((x.n * 1000) % x.d) > x.d THEN ((x.n * 1000) \div x.d) + 1
          ELSE IF 2 * ((x.n * 1000) % x.d) < x.d THEN (x.n * 1000) \div x.d
          ELSE IF ((x.n * 1000) \div x.d) % 2 = 0 THEN (x.n * 1000) \div x.d
          ELSE ((x.n * 1000) \div x.d) + 1,
          1000)

\* the service starts with an empty _bonus_cache
BonusInit ==
    /\ storage_type = "json"
    /\ json_file = FileOf(NoEntries)
    /\ data = NoEntries
    /\ redis = NoEntries
    /\ memory_cache = <<>>
    /\ builder_cache = [a \in Anchors |-> None]
    /\ populate = NoPopulate
    /\ last = [op |-> "bonus_init", calls |-> 0, _bonus_cache |-> <<>>]

\* cache_key in self._bonus_cache
BonusCached(bonus_cache, cache_key) ==
    \E i \in 1..Len(bonus_cache) : bonus_cache[i].key = cache_key

\* EnhancedScoringService._calculate_category_bonus with its cache: a
\* sequence of entries [key, bonus], the key made of the category, the
\* length and the creativity rounded to three places
CalculateCategoryBonus(category, creativity_score, word_length) ==
    /\ last.calls < MaxBonusCalls
    /\ \E cache_key \in {<<category, word_length, PyRound3(creativity_score)>>} :
       \E bonus \in
          {IF BonusCached(last._bonus_cache, cache_key)
           THEN last._bonus_cache[CHOOSE i \in 1..Len(last._bonus_cache) :
                                     last._bonus_cache[i].key = cache_key].bonus
           ELSE _calculate_category_bonus(category, creativity_score, word_length)} :
          last' = [op |-> "bonus", calls |-> last.calls + 1,
                   category |-> category, creativity_score |-> creativity_score,
                   word_length |-> word_length, bonus |-> bonus,
                   _bonus_cache |->
                       IF \/ BonusCached(last._bonus_cache, cache_key)
                          \/ Len(last._bonus_cache) >= BonusCacheLimit
                       THEN last._bonus_cache
                       ELSE Append(last._bonus_cache, [key |-> cache_key, bonus |-> bonus])]
    /\ UNCHANGED <<storage_type, redis, data, json_file, memory_cache, builder_cache, populate>>

BonusNext ==
    \E category \in {"ana", "prf"}, creativity_score \in CreativityScores,
       word_length \in {3, 7} :
        CalculateCategoryBonus(category, creativity_score, word_length)

BonusSpec == BonusInit /\ [][BonusNext]_vars

\* ----------------------------------------------------------- word engine
\* words of the engine are sequences of letters; the alphabet of the loops
\* over 'abcdefghijklmnopqrstuvwxyz', cut to the letters the words use
Alphabet == <<"a", "b", "e", "t">>

LETTER_PRIMES == ("a" :> 2) @@ ("b" :> 3) @@ ("e" :> 11) @@ ("t" :> 71)

\* the words words.txt may list
WordUniverse ==
    {<<"b", "e">>, <<"b", "e", "e">>, <<"b", "e", "t">>, <<"b", "a", "t">>,
     <<"t", "a", "b">>, <<"a", "t">>, <<"b", "e", "a", "t">>}

RECURSIVE _compute_prime_signature(_)
_compute_prime_signature(word) ==
    IF word = <<>> THEN 1
    ELSE (IF Head(word) \in DOMAIN LETTER_PRIMES THEN LETTER_PRIMES[Head(word)] ELSE 1)
         * _compute_prime_signature(Tail(word))

\* anagrams.json: the words of the list under their signature
get_anagrams(quality_words, word) ==
    SelectSeq(SetToSeq({w \in quality_words :
                           _compute_prime_signature(w) = _compute_prime_signature(word)}),
              LAMBDA w : w # word)

\* the trie has a node for the prefix
_find_trie_node(quality_words, prefix) ==
    prefix = <<>> \/ \E w \in quality_words :
                        Len(w) >= Len(prefix) /\ SubSeq(w, 1, Len(prefix)) = prefix

_trie_contains_word(quality_words, word) == word \in quality_words

\* position by position, letter by letter: prefix + letter + suffix, where
\* skip is the number of letters of the word the letter replaces
LetterEdits(word, skip) ==
    [n \in 1..((Len(word) + 1 - skip) * Len(Alphabet)) |->
        [prefix |-> SubSeq(word, 1, (n - 1) \div Len(Alphabet)),
         letter |-> Alphabet[((n - 1) % Len(Alphabet)) + 1],
         replaced |-> SubSeq(word, ((n - 1) \div Len(Alphabet)) + 1,
                             ((n - 1) \div Len(Alphabet)) + skip),
         suffix |-> SubSeq(word, ((n - 1) \div Len(Alphabet)) + 1 + skip, Len(word))]]

CandidateOf(edit) == edit.prefix \o <<edit.letter>> \o edit.suffix

\* the candidates of the edits whose letter the trie has below the prefix
\* and that are words of the trie
TrieCandidates(quality_words, edits) ==
    Bind(SelectSeq(edits, LAMBDA c :
             /\ _find_trie_node(quality_words, c.prefix)
             /\ <<c.letter>> # c.replaced
             /\ _find_trie_node(quality_words, Append(c.prefix, c.letter))
             /\ _trie_contains_word(quality_words, CandidateOf(c))),
         LAMBDA kept : [n \in 1..Len(kept) |-> CandidateOf(kept[n])])

_trie_generate_added_letters(quality_words, word) ==
    TrieCandidates(quality_words, LetterEdits(word, 0))

_trie_generate_changed_letters(quality_words, word) ==
    TrieCandidates(quality_words, LetterEdits(word, 1))

_trie_generate_removed_letters(quality_words, word) ==
    SelectSeq([i \in 1..Len(word) |-> SubSeq(word, 1, i - 1) \o SubSeq(word, i + 1, Len(word))],
              LAMBDA candidate : _trie_contains_word(quality_words, candidate))

get_one_letter_off(quality_words, word) ==
    [added |-> SelectSeq(_trie_generate_added_letters(quality_words, word),
                         LAMBDA candidate : candidate \in quality_words /\ candidate # word),
     removed |-> SelectSeq(_trie_generate_removed_letters(quality_words, word),
                           LAMBDA candidate : candidate \in quality_words),
     changed |-> SelectSeq(_trie_generate_changed_letters(quality_words, word),
                           LAMBDA candidate : candidate \in quality_words)]

\* the engine is loaded with some word list and asked for a word of it
EngineInit ==
    /\ storage_type = "json"
    /\ json_file = FileOf(NoEntries)
    /\ data = NoEntries
    /\ redis = NoEntries
    /\ memory_cache = <<>>
    /\ builder_cache = [a \in Anchors |-> None]
    /\ populate = NoPopulate
    /\ \E quality_words \in SUBSET WordUniverse : \E word \in quality_words :
          last = [op |-> "engine_request", quality_words |-> quality_words, word |-> word]

\* EfficientWordEngine.get_comprehensive_transformations: the anagrams and
\* the three one-letter-off lists
EngineTransformations ==
    /\ last.op = "engine_request"
    /\ \E olo_transformations \in {get_one_letter_off(last.quality_words, last.word)} :
          last' = [op |-> "transformations", quality_words |-> last.quality_words,
                   word |-> last.word,
                   anagrams |-> get_anagrams(last.quality_words, last.word),
                   added |-> olo_transformations.added,
                   removed |-> olo_transformations.removed,
                   changed |-> olo_transformations.changed]
    /\ UNCHANGED <<storage_type, redis, data, json_file, memory_cache, builder_cache, populate>>

EngineNext == EngineTransformations

EngineSpec == EngineInit /\ [][EngineNext]_vars

\* ----------------------------------------------------------- game service
\* the number of moves a game is followed for
MaxRounds == 3

\* frequencies.json: lowercase word -> relative frequency; 'tab' is a word
\* of the engine that the file does not list
frequencies_data ==
    (<<"b", "e">> :> Float(1, 100)) @@ (<<"a", "t">> :> Float(1, 200))
    @@ (<<"b", "e", "t">> :> Float(1, 10000)) @@ (<<"b", "a", "t">> :> Float(1, 100000))
    @@ (<<"b", "e", "e">> :> Float(1, 100000))
    @@ (<<"b", "e", "a", "t">> :> Float(1, 10000000))

\* the words a caller may send: the words of the engine and one that
\* neither the engine nor the dictionary knows
GameWords == WordUniverse \cup {<<"t", "e", "a">>}

_is_valid_word(word) == word \in DOMAIN frequencies_data

_get_word_frequency(word) ==
    IF word \in DOMAIN frequencies_data THEN frequencies_data[word] ELSE Zero

\* the rhymes of a word by quality, as the pronunciation data gives them
categorize_rhymes_by_quality(word) ==
    CASE word = <<"a", "t">> ->
           [perfect |-> <<<<"b", "a", "t">>>>, near |-> <<>>, rich |-> <<>>, slant |-> <<>>]
      [] word = <<"b", "a", "t">> ->
           [perfect |-> <<<<"a", "t">>>>, near |-> <<<<"b", "e", "t">>>>, rich |-> <<>>,
            slant |-> <<>>]
      [] word = <<"b", "e">> ->
           [perfect |-> <<>>, near |-> <<>>, rich |-> <<<<"b", "e", "e">>>>, slant |-> <<>>]
      [] word = <<"b", "e", "e">> ->
           [perfect |-> <<>>, near |-> <<>>, rich |-> <<<<"b", "e">>>>, slant |-> <<>>]
      [] word = <<"b", "e", "t">> ->
           [perfect |-> <<>>, near |-> <<<<"b", "a", "t">>>>, rich |-> <<>>,
            slant |-> <<<<"b", "e", "a", "t">>>>]
      [] word = <<"b", "e", "a", "t">> ->
           [perfect |-> <<>>, near |-> <<>>, rich |-> <<>>, slant |-> <<<<"b", "e", "t">>>>]
      [] OTHER -> [perfect |-> <<>>, near |-> <<>>, rich |-> <<>>, slant |-> <<>>]

\* the words of a list
WordsOf(list) == {list[i] : i \in 1..Len(list)}

\* EfficientWordService.get_comprehensive_transformations over the engine
TransformationData(start_word) ==
    Bind(categorize_rhymes_by_quality(start_word), LAMBDA categorized_rhymes :
    Bind(get_anagrams(WordUniverse, start_word), LAMBDA anagrams :
    Bind(get_one_letter_off(WordUniverse, start_word), LAMBDA olo :
        [perfect_rhymes |-> categorized_rhymes.perfect,
         near_rhymes |-> categorized_rhymes.near,
         rich_rhymes |-> categorized_rhymes.rich,
         slant_rhymes |-> categorized_rhymes.slant,
         anagrams |-> anagrams,
         added_letters |-> olo.added,
         removed_letters |-> olo.removed,
         changed_letters |-> olo.changed,
         all_transformations |->
             WordsOf(categorized_rhymes.perfect \o categorized_rhymes.near
                     \o categorized_rhymes.rich \o categorized_rhymes.slant
                     \o anagrams \o olo.added \o olo.removed \o olo.changed)
             \ {start_word}])))

_calculate_frequency_rank(frequency) ==
    IF FGe(frequency, Float(1, 1000)) THEN "very_common"
    ELSE IF FGe(frequency, Float(1, 100000)) THEN "common"
    ELSE IF FGe(frequency, Float(1, 10000000)) THEN "uncommon"
    ELSE IF FGe(frequency, Float(1, 1000000000)) THEN "rare"
    ELSE "very_rare"

\* the loop over the available words: the first word of the highest
\* frequency (every frequency is above the -1 the loop starts from)
BestSuggestion(available_words) ==
    IF available_words = <<>> THEN None
    ELSE Bind(available_words[
                  CHOOSE i \in 1..Len(available_words) :
                      /\ \A j \in 1..Len(available_words) :
                            ~FGt(_get_word_frequency(available_words[j]),
                                 _get_word_frequency(available_words[i]))
                      /\ \A j \in 1..(i - 1) :
                            FGt(_get_word_frequency(available_words[i]),
                                _get_word_frequency(available_words[j]))],
              LAMBDA best_word :
                  [word |-> best_word,
                   frequency |-> _get_word_frequency(best_word),
                   frequency_rank |->
                       _calculate_frequency_rank(_get_word_frequency(best_word))])

\* suggestions that leave the played words in
SuggestionsOfEveryWord(transformations, excluded_words) ==
    [play_type \in CategoryKeys |->
        BestSuggestion(CategoryWords(transformations, play_type))]

\* one suggestion per play type, None where the dict has no entry
_create_suggestions_with_frequencies(transformations, excluded_words) ==
    [play_type \in CategoryKeys |->
        BestSuggestion(SelectSeq(CategoryWords(transformations, play_type),
                                 LAMBDA word :
                                     \A i \in 1..Len(excluded_words) :
                                         excluded_words[i] # word))]

_extract_play_type(start_word, candidate_word) ==
    Bind(ValidCategories(TransformationData(start_word), candidate_word), LAMBDA valid :
        IF valid = <<>> THEN "unknown" ELSE Head(valid))

\* Umi answers from her own suggestions: the play type of the player first,
\* then the first other entry, then her last word again
_select_umi_response(game_state, play_type) ==
    Bind(SelectSeq(CategoryOrder, LAMBDA other_play_type :
             /\ game_state.umi_suggestions[other_play_type] # None
             /\ other_play_type # play_type),
         LAMBDA others :
             IF play_type \in CategoryKeys /\ game_state.umi_suggestions[play_type] # None
             THEN game_state.umi_suggestions[play_type].word
             ELSE IF others # <<>> THEN game_state.umi_suggestions[Head(others)].word
             ELSE game_state.umi_chain[Len(game_state.umi_chain)])

\* what score_candidate_comprehensive and _extract_highest_scoring_category
\* hand back to the game: a failure or a score
ScoringOutcomes ==
    {[success |-> FALSE, data |-> None],
     [success |-> TRUE, data |-> [total_score |-> Float(DefaultBaseScore, 1)]]}

_update_game_state(game_state, player_word, umi_word, player_result, umi_result) ==
    [game_state EXCEPT
        !.player_chain = Append(@, player_word),
        !.umi_chain = Append(@, umi_word),
        !.current_word = player_word,
        !.rounds_played = @ + 1,
        !.player_score = IF player_result.success /\ player_result.data # None
                         THEN FAdd(@, player_result.data.total_score) ELSE @,
        !.umi_score = IF umi_result.success /\ umi_result.data # None
                      THEN FAdd(@, umi_result.data.total_score) ELSE @,
        !.move_history = Append(@, [round |-> game_state.rounds_played + 1,
                                    player_word |-> player_word, umi_word |-> umi_word,
                                    player_result |-> player_result,
                                    umi_result |-> umi_result])]

_update_suggestions_with_frequencies(game_state, player_word, umi_word) ==
    Bind(game_state.player_chain \o game_state.umi_chain, LAMBDA all_played_words :
        [game_state EXCEPT
            !.player_suggestions =
                _create_suggestions_with_frequencies(TransformationData(player_word),
                                                     all_played_words),
            !.umi_suggestions =
                _create_suggestions_with_frequencies(
                    TransformationData(game_state.umi_chain[Len(game_state.umi_chain)]),
                    all_played_words)])

\* a game is on: game_state is neither None nor the empty dict
GameStarted(game_state) == "player_chain" \in DOMAIN game_state

\* after initialize(): no game yet, the stores empty
GameInit ==
    /\ storage_type = "json"
    /\ json_file = FileOf(NoEntries)
    /\ data = NoEntries
    /\ redis = NoEntries
    /\ memory_cache = <<>>
    /\ builder_cache = [a \in Anchors |-> None]
    /\ populate = NoPopulate
    /\ last = [op |-> "initialized", game_state |-> None]

\* GameService.start_game; a start word that is refused raises and leaves
\* the game as it was
start_game(start_word) ==
    /\ \E transformations \in {TransformationData(start_word)} :
          last' =
              IF ~_is_valid_word(start_word)
              THEN [op |-> "game_service_error", message |-> "is not in the dictionary",
                    game_state |-> last.game_state]
              ELSE IF transformations.all_transformations = {}
              THEN [op |-> "game_service_error", message |-> "has no valid transformations",
                    game_state |-> last.game_state]
              ELSE Bind(_create_suggestions_with_frequencies(transformations, <<start_word>>),
                        LAMBDA player_suggestions :
                            [op |-> "game_started",
                             game_state |->
                                 [cls |-> "dict",
                                  start_word |-> start_word,
                                  current_word |-> start_word,
                                  player_chain |-> <<start_word>>,
                                  umi_chain |-> <<start_word>>,
                                  player_suggestions |-> player_suggestions,
                                  umi_suggestions |-> player_suggestions,
                                  rounds_played |-> 0,
                                  player_score |-> Zero,
                                  umi_score |-> Zero,
                                  move_history |-> <<>>]])
    /\ UNCHANGED <<storage_type, redis, data, json_file, memory_cache, builder_cache, populate>>

\* a process_player_move that counts a refused word as a round played
MoveCountingRefusals(candidate_word, player_result, umi_result) ==
    /\ GameStarted(last.game_state)
    /\ last.game_state.rounds_played < MaxRounds
    /\ \E game_state \in {last.game_state} :
          last' =
              IF \/ ~_is_valid_word(candidate_word)
                 \/ candidate_word \notin
                        TransformationData(game_state.current_word).all_transformations
              THEN [op |-> "invalid_word",
                    game_state |-> [game_state EXCEPT !.rounds_played = @ + 1]]
              ELSE IF \/ candidate_word \in WordsOf(game_state.player_chain)
                      \/ candidate_word \in WordsOf(game_state.umi_chain)
              THEN [op |-> "duplicate_word",
                    game_state |-> [game_state EXCEPT !.rounds_played = @ + 1]]
              ELSE Bind(_select_umi_response(
                            game_state,
                            _extract_play_type(game_state.current_word, candidate_word)),
                        LAMBDA umi_word :
                            [op |-> "move_processed",
                             game_state |->
                                 _update_suggestions_with_frequencies(
                                     _update_game_state(game_state, candidate_word, umi_word,
                                                        player_result, umi_result),
                                     candidate_word, umi_word)])
    /\ UNCHANGED <<storage_type, redis, data, json_file, memory_cache, builder_cache, populate>>

\* GameService.process_player_move; the two scoring results are inputs
process_player_move(candidate_word, player_result, umi_result) ==
    /\ GameStarted(last.game_state)
    /\ last.game_state.rounds_played < MaxRounds
    /\ \E game_state \in {last.game_state} :
          last' =
              IF ~_is_valid_word(candidate_word)
              THEN [op |-> "invalid_word", game_state |-> game_state]
              ELSE IF \/ candidate_word \in WordsOf(game_state.player_chain)
                      \/ candidate_word \in WordsOf(game_state.umi_chain)
              THEN [op |-> "duplicate_word", game_state |-> game_state]
              ELSE IF candidate_word \notin
                          TransformationData(game_state.current_word).all_transformations
              THEN [op |-> "invalid_word", game_state |-> game_state]
              ELSE Bind(_select_umi_response(
                            game_state,
                            _extract_play_type(game_state.current_word, candidate_word)),
                        LAMBDA umi_word :
                            [op |-> "move_processed",
                             game_state |->
                                 _update_suggestions_with_frequencies(
                                     _update_game_state(game_state, candidate_word, umi_word,
                                                        player_result, umi_result),
                                     candidate_word, umi_word)])
    /\ UNCHANGED <<storage_type, redis, data, json_file, memory_cache, builder_cache, populate>>

\* GameService.reset_game
reset_game ==
    /\ last.op # "game_reset"
    /\ last' = [op |-> "game_reset", game_state |-> [cls |-> "dict"]]
    /\ UNCHANGED <<storage_type, redis, data, json_file, memory_cache, builder_cache, populate>>

GameNext ==
    \/ \E start_word \in GameWords : start_game(start_word)
    \/ \E candidate_word \in GameWords, player_result \in ScoringOutcomes,
          umi_result \in ScoringOutcomes :
          process_player_move(candidate_word, player_result, umi_result)
    \/ reset_game

GameSpec == GameInit /\ [][GameNext]_vars

\* ------------------------------------------------------------- build alone
\* the word lists a build may be given for an anchor: any selection of its
\* anagrams, its changed-letter words and its perfect rhymes
BuildRequests ==
    UNION {{[start_word |-> a,
             valid_words |-> [ValidWords(get_comprehensive_transformations(a))
                                 EXCEPT !.ana = ana, !.olx = olx, !.prf = prf]] :
               ana \in SubSeqs(ValidWords(get_comprehensive_transformations(a)).ana),
               olx \in SubSeqs(ValidWords(get_comprehensive_transformations(a)).olx),
               prf \in SubSeqs(ValidWords(get_comprehensive_transformations(a)).prf)} :
           a \in Anchors}

BuildInit ==
    /\ storage_type = "json"
    /\ json_file = FileOf(NoEntries)
    /\ data = NoEntries
    /\ redis = NoEntries
    /\ memory_cache = <<>>
    /\ builder_cache = [a \in Anchors |-> None]
    /\ populate = NoPopulate
    /\ \E request \in BuildRequests :
          last = [op |-> "build_request", start_word |-> request.start_word,
                  valid_words |-> request.valid_words]

\* ProbabilityTreeBuilder._build_complete_tree: the tree and the contexts
\* the model was asked for, in order
Build ==
    /\ last.op = "build_request"
    /\ \E b \in {_build_complete_tree(last.start_word, last.valid_words)} :
          last' = [op |-> "built", start_word |-> last.start_word,
                   valid_words |-> last.valid_words, tree |-> b.tree, calls |-> b.calls,
                   contexts |-> b.contexts]
    /\ UNCHANGED <<storage_type, redis, data, json_file, memory_cache, builder_cache, populate>>

BuildNext == Build

BuildSpec == BuildInit /\ [][BuildNext]_vars

\* ------------------------------------------------------------ lookup alone
\* the longest token sequence handed to the lookup
MaxTokens == 3

RECURSIVE TokenSequences(_)
\* every token sequence of at most n tokens of the vocabulary
TokenSequences(n) ==
    IF n = 0 THEN {<<>>}
    ELSE LET shorter == TokenSequences(n - 1) IN
         shorter \cup {<<t>> \o q : t \in 0..(vocab_size - 1), q \in shorter}

\* a lookup is asked for a built tree, one of its categories and a token sequence
LookupInit ==
    /\ storage_type = "json"
    /\ json_file = FileOf(NoEntries)
    /\ data = NoEntries
    /\ redis = NoEntries
    /\ memory_cache = <<>>
    /\ builder_cache = [a \in Anchors |-> None]
    /\ populate = NoPopulate
    /\ \E a \in Anchors, k \in CategoryKeys, token_sequence \in TokenSequences(MaxTokens) :
          last = [op |-> "lookup_request", start_word |-> a, category |-> k,
                  token_sequence |-> token_sequence]

\* ProbabilityTreeLookup.get_sequence_probability and get_creativity_score
Lookup ==
    /\ last.op = "lookup_request"
    /\ last' = [op |-> "lookup", start_word |-> last.start_word, category |-> last.category,
                token_sequence |-> last.token_sequence,
                sequence_prob |->
                    get_sequence_probability(BuiltTree(last.start_word),
                        category_mapping(last.category)[1], category_mapping(last.category)[2],
                        last.token_sequence),
                creativity_score |->
                    get_creativity_score(BuiltTree(last.start_word),
                        category_mapping(last.category)[1], category_mapping(last.category)[2],
                        last.token_sequence)]
    /\ UNCHANGED <<storage_type, redis, data, json_file, memory_cache, builder_cache, populate>>

LookupNext == Lookup

LookupSpec == LookupInit /\ [][LookupNext]_vars

\* -------------------------------------------------------- validation alone
\* the factors the stored probabilities of a node are off by: none, a
\* half, double, and 0.0005 too much
ScaleFactors == {One, Float(1, 2), Float(2, 1), Float(2001, 2000)}

\* the node with every stored probability multiplied by the factor
ScaleNode(node, factor) ==
    [node EXCEPT !.prb = [k \in DOMAIN node.prb |->
                             SetProb(node.prb[k], FMul(ProbOf(node.prb[k]), factor))]]

\* the tree with the node of one category scaled
ScaledTree(tree, category, factor) ==
    CASE category = "ana" -> [tree EXCEPT !.ana = ScaleNode(@, factor)]
      [] category \in {"ola", "olr", "olx"} ->
           [tree EXCEPT !.olo[category] = ScaleNode(@, factor)]
      [] category \in {"prf", "rch", "sln"} ->
           [tree EXCEPT !.rhy[category] = ScaleNode(@, factor)]

\* a built tree, one of its nodes possibly off, is handed to validation
ValidateInit ==
    /\ storage_type = "json"
    /\ json_file = FileOf(NoEntries)
    /\ data = NoEntries
    /\ redis = NoEntries
    /\ memory_cache = <<>>
    /\ builder_cache = [a \in Anchors |-> None]
    /\ populate = NoPopulate
    /\ \E tree \in RoundTripTrees, category \in CategoryKeys, factor \in ScaleFactors :
          last = [op |-> "validate_request", tree |-> ScaledTree(tree, category, factor)]

\* validate_probability_tree: the verdict and the tree as validation,
\* which works in place, leaves it
Validate ==
    /\ last.op = "validate_request"
    /\ \E v \in {validate_probability_tree(last.tree)} :
          last' = [op |-> "validated", given |-> last.tree, ok |-> v.ok, tree |-> v.tree]
    /\ UNCHANGED <<storage_type, redis, data, json_file, memory_cache, builder_cache, populate>>

ValidateNext == Validate

ValidateSpec == ValidateInit /\ [][ValidateNext]_vars

\* ------------------------------------------------------ memory cache alone
\* the words whose trees the JSON fallback holds
CacheWords == Anchors \cup {"hat"}

CacheTrees ==
    [start_word \in CacheWords |->
        _build_complete_tree(start_word,
                             ValidWords(get_comprehensive_transformations(start_word))).tree]

\* the words in the order of their last use, with start_word used now
Touch(recency, start_word) ==
    Append(SelectSeq(recency, LAMBDA word : word # start_word), start_word)

\* a service in json mode whose file holds the tree of every word
CacheInit ==
    /\ storage_type = "json"
    /\ data = [start_word \in CacheWords |->
                  JsonEntry(_serialize_tree(CacheTrees[start_word]))]
    /\ json_file = FileOf(data)
    /\ redis = [start_word \in CacheWords |-> None]
    /\ memory_cache = <<>>
    /\ builder_cache = [a \in Anchors |-> None]
    /\ populate = NoPopulate
    /\ last = [op |-> "cache_init", recency |-> <<>>]

\* get_probability_tree; last keeps the words of the cache in the order of
\* their last use before the call, and the words the call evicted and kept
CacheGet(start_word) ==
    /\ \E g \in {get_probability_tree(memory_cache, storage_type, redis, data, start_word,
                                       FALSE)} :
          /\ memory_cache' = g.memory_cache
          /\ last' = [op |-> "cache_get", start_word |-> start_word,
                      hit |-> start_word \in McKeys(memory_cache),
                      recency_before |-> last.recency,
                      evicted |-> McKeys(memory_cache) \ McKeys(g.memory_cache),
                      kept |-> McKeys(memory_cache) \cap McKeys(g.memory_cache),
                      recency |-> SelectSeq(Touch(last.recency, start_word),
                                            LAMBDA word : word \in McKeys(g.memory_cache))]
    /\ UNCHANGED <<storage_type, redis, data, json_file, builder_cache, populate>>

\* store_probability_tree with the tree of the word
CachePut(start_word) ==
    /\ \E s \in {store_probability_tree(memory_cache, storage_type, redis, data, json_file,
                                         start_word, CacheTrees[start_word], FALSE, "none")} :
          /\ memory_cache' = s.memory_cache
          /\ redis' = s.redis
          /\ data' = s.data
          /\ json_file' = s.json_file
          /\ last' = [op |-> "cache_put", start_word |-> start_word,
                      recency |-> Touch(last.recency, start_word)]
    /\ UNCHANGED <<storage_type, builder_cache, populate>>

CacheNext ==
    \/ \E start_word \in CacheWords : CacheGet(start_word)
    \/ \E start_word \in CacheWords : CachePut(start_word)

CacheSpec == CacheInit /\ [][CacheNext]_vars

\* ------------------------------------------------- writers of one JSON file
\* the service instances that were constructed over the same json_file_path
\* (the game service and a scoring service each construct their own)
Writers == {"game", "scoring"}

\* json mode, the file without a tree; every instance has loaded it. Here
\* data and memory_cache hold the self.data and the _memory_cache of every
\* instance, and last holds where every instance is in its store
WritersInit ==
    /\ storage_type = "json"
    /\ json_file = FileOf(NoEntries)
    /\ data = [w \in Writers |-> _load_json_data(json_file)]
    /\ redis = NoEntries
    /\ memory_cache = [w \in Writers |-> <<>>]
    /\ builder_cache = [a \in Anchors |-> None]
    /\ populate = NoPopulate
    /\ last = [op |-> "writers", at |-> [w \in Writers |-> "idle"],
               stored |-> [w \in Writers |-> {}], overlapped |-> FALSE]

\* store_probability_tree up to the open(path, 'w') of _save_json_data: the
\* memory cache and self.data have the tree, the file is cut to nothing
WriterOpens(w, start_word) ==
    /\ last.at[w] = "idle"
    /\ memory_cache' = [memory_cache EXCEPT ![w] = McSet(@, start_word, BuiltTree(start_word))]
    /\ data' = [data EXCEPT ![w][start_word] = JsonEntry(_serialize_tree(BuiltTree(start_word)))]
    /\ json_file' = UnreadableFile
    /\ last' = [last EXCEPT !.at[w] = "open",
                            !.stored[w] = @ \cup {start_word},
                            !.overlapped = @ \/ \E other \in Writers \ {w} :
                                                    last.at[other] = "open"]
    /\ UNCHANGED <<storage_type, redis, builder_cache, populate>>

\* json.dump(self.data, f) and the close of the file; where another
\* instance has the file open too, the bytes of the two dumps may mix
WriterDumps(w, mixed) ==
    /\ last.at[w] = "open"
    /\ mixed => \E other \in Writers \ {w} : last.at[other] = "open"
    /\ json_file' = IF mixed THEN UnreadableFile ELSE _save_json_data(json_file, data[w], "none")
    /\ last' = [last EXCEPT !.at[w] = "idle"]
    /\ UNCHANGED <<storage_type, redis, data, memory_cache, builder_cache, populate>>

WritersNext ==
    \/ \E w \in Writers, start_word \in Anchors : WriterOpens(w, start_word)
    \/ \E w \in Writers, mixed \in BOOLEAN : WriterDumps(w, mixed)

WritersSpec == WritersInit /\ [][WritersNext]_vars

\* ------------------------------------------------------ the specifications
\* the storage service under the puts and gets of its callers
Next ==
    \/ \E a \in Anchors, kv_fault \in KvFaults, json_fault \in FileFaults : Put(a, kv_fault, json_fault)
    \/ \E a \in Anchors, kv_fault \in KvFaults : Get(a, kv_fault)
    \/ clear_memory_cache
    \/ Restart

Spec == Init /\ [][Next]_vars

\* scoring requests, each run to its end before the event loop takes the next
ScoringNext ==
    \/ \E r \in ScoreRequests, kv_fault \in KvFaults : Score(r[1], r[3], r[2], kv_fault, "none")
    \/ \E a \in Anchors : Get(a, FALSE)
    \/ clear_memory_cache
    \/ Restart

ScoringSpec == Init /\ [][ScoringNext]_vars

\* populate_from_file next to the puts and gets of other requests
PopulateNext ==
    \/ \E file \in PopulateFiles \cup {json_file}, check_faults \in SUBSET Anchors :
          PopulateStart(file, check_faults)
    \/ \E word \in Anchors, kv_fault \in BOOLEAN : PopulateStore(word, kv_fault)
    \/ PopulateFinish
    \/ \E a \in Anchors : Put(a, FALSE, "none")
    \/ \E a \in Anchors : Get(a, FALSE)

PopulateSpec == Init /\ [][PopulateNext]_vars

\* populate_from_file followed by the scoring requests of callers
PopulateScoreNext ==
    \/ \E file \in PopulateFiles \cup {json_file}, check_faults \in SUBSET Anchors :
          PopulateStart(file, check_faults)
    \/ \E word \in Anchors, kv_fault \in BOOLEAN : PopulateStore(word, kv_fault)
    \/ PopulateFinish
    \/ \E r \in ScoreRequests : Score(r[1], r[3], r[2], FALSE, "none")

PopulateScoreSpec == Init /\ [][PopulateScoreNext]_vars

\* ---------------------------------------------------------------- claims
IsTree(v) == v.cls = "WordProbabilityTree"

\* C1: after the first scoring request for an anchor that no stratum held,
\* whose build and validation in the builder succeeded, has(anchor) is true
\* and get(anchor) returns the tree that was built.
C1_FirstRequestStoresTree ==
    (last.op = "score" /\ last.fresh /\ last.built /\ builder_cache[last.start_word] # None)
    => /\ has_probability_tree(memory_cache, storage_type, redis, data, last.start_word, FALSE)
       /\ get_probability_tree(memory_cache, storage_type, redis, data,
                               last.start_word, FALSE).tree = builder_cache[last.start_word]

\* C2: a scoring call that repeats the call before it in the same process
\* returns the same total, base and bonus, and asks the model nothing.
C2_SecondScoreFromCache ==
    (last.op = "score" /\ last.again)
    => /\ last.result.total_score = last.previous.total_score
       /\ last.result.base_score = last.previous.base_score
       /\ last.result.category_bonus = last.previous.category_bonus
       /\ last.calls = <<>>

\* C3: of the callers that ask for an anchor no stratum holds, one runs the
\* build and the others run none, and the model is asked exactly for the
\* contexts of that one build: the building call asks for the build's
\* contexts, every other call asks for nothing.
C3_OnlyTheQueriesOfOneBuild ==
    (last.op = "score" /\ last.fresh)
    => /\ last.built = last.first
       /\ last.calls = IF last.built THEN BuildCalls(last.start_word) ELSE <<>>

C6_ReadFaultDegradesOneStratum ==
    /\ (last.op = "get" /\ ~last.hit /\ storage_type = "hybrid"
          /\ redis[last.start_word] # None
          /\ ~IsTree(KvDecode(redis[last.start_word]))
          /\ IsTree(JsonDecode(data, last.start_word)))
       => last.result = JsonDecode(data, last.start_word)
    /\ (last.op = "score" /\ ~last.returned) => builder_cache[last.start_word] # None

\* C7: the in-memory cache never holds more than cache_size trees.
C7_MemoryCacheWithinCapacity == Len(memory_cache) <= cache_size

\* C8: in hybrid mode, after a put that did not raise, the key-value store
\* and the JSON file each hold a value for the anchor that decodes to the
\* tree that was put.
C8_HybridPutReadableFromBoth ==
    (last.op = "put" /\ ~last.raised /\ storage_type = "hybrid")
    => /\ redis[last.start_word] # None
       /\ KvDecode(redis[last.start_word]) = BuiltTree(last.start_word)
       /\ json_file.readable
       /\ JsonDecode(json_file.content, last.start_word) = BuiltTree(last.start_word)

\* a hybrid put that did not raise, over a key-value entry and a JSON entry
\* that held something else before
C8_Witness ==
    /\ last.op = "put"
    /\ ~last.raised
    /\ storage_type = "hybrid"
    /\ last.start_word = "cat"
    /\ IsTree(KvDecode(redis["cat"]))
    /\ IsTree(JsonDecode(json_file.content, "cat"))
    /\ redis["dog"] = None

\* C9: deserialising a serialised tree gives the tree back, and so does
\* reading the bytes back out of the key-value store's text and out of the
\* JSON fallback's entry.
C9_RoundTrip ==
    /\ last.op = "deserialized" => last.back = last.tree
    /\ last.op = "serialized" =>
          /\ KvDecode(B64Encode(last.bytes)) = last.tree
          /\ JsonDecode([a \in Anchors |-> JsonEntry(last.bytes)], "cat") = last.tree

\* a tree with a branch below a token and an empty category came back
C9_Witness ==
    /\ last.op = "deserialized"
    /\ IsTree(last.back)
    /\ \E k \in DOMAIN last.tree.rhy["prf"].prb : last.back.rhy["prf"].prb[k].cls = "ChildNode"
    /\ \E k \in DOMAIN last.tree.rhy["prf"].prb : last.back.rhy["prf"].prb[k].cls = "float"
    /\ last.back.rhy["sln"].val = NullSentinel

FileHoldsTree(file, start_word) ==
    /\ file.readable
    /\ file.content[start_word] # None
    /\ "serialized" \in DOMAIN file.content[start_word]
    /\ ~IsRaised(FromHex(file.content[start_word].serialized))
    /\ IsTree(_deserialize_tree(FromHex(file.content[start_word].serialized)))

\* C11: a scoring request that follows a populate_from_file run over a file
\* holding a tree for the request's anchor asks the model nothing.
C11_ScoreAfterPopulateAsksNoModel ==
    [][(/\ last.op = "populate"
        /\ last'.op = "score"
        /\ FileHoldsTree(last.file, last'.start_word))
       => last'.calls = <<>>]_vars

\* the node a lookup starts from
LookupNode == CategoryNode(BuiltTree(last.start_word), category_mapping(last.category)[1],
                           category_mapping(last.category)[2])

RECURSIVE WalkEnd(_, _)
\* how the walk of a non-empty token sequence ends: on a token the node does
\* not hold, at a terminal on the last token, at a terminal with tokens
\* left, or used up at a branch
WalkEnd(node, tokens) ==
    IF Head(tokens) \notin DOMAIN node.prb THEN "missing"
    ELSE IF node.prb[Head(tokens)].cls = "float"
         THEN IF Tail(tokens) = <<>> THEN "terminal" ELSE "terminal_with_rest"
         ELSE IF Tail(tokens) = <<>> THEN "used_up_at_branch"
              ELSE WalkEnd(node.prb[Head(tokens)].child_prb, Tail(tokens))

\* C12: sequence_probability is 0 for every non-empty token sequence whose
\* walk does not end at a terminal on its last token: used up at a branch
\* node, or at a terminal while tokens remain.
C12_ZeroUnlessTerminalOnLastToken ==
    (/\ last.op = "lookup"
     /\ last.token_sequence # <<>>
     /\ WalkEnd(LookupNode, last.token_sequence) # "terminal")
    => last.sequence_prob = Zero

\* C13: for every built tree, every category and every token sequence the
\* creativity score lies between 0 and 1.
C13_CreativityWithinUnitInterval ==
    last.op = "lookup"
    => FGe(last.creativity_score, Zero) /\ FGe(One, last.creativity_score)

RECURSIVE NodesBelow(_)
\* a node and every node below it
NodesBelow(node) ==
    {node} \cup UNION {NodesBelow(node.prb[k].child_prb) :
                          k \in {t \in DOMAIN node.prb : node.prb[t].cls = "ChildNode"}}

\* every node of a tree, at every depth
TreeNodes(tree) ==
    NodesBelow(tree.ana) \cup UNION {NodesBelow(tree.olo[k]) : k \in DOMAIN tree.olo}
                        \cup UNION {NodesBelow(tree.rhy[k]) : k \in DOMAIN tree.rhy}

SumsToOne(node) == ~FGt(FAbsDiff(PrbSum(node.prb), One), Tolerance)

\* C14 as stated: after a build the stored probabilities of every node that
\* is not the empty sentinel sum to 1 within 1e-3.
C14_EveryNodeSumsToOne ==
    last.op = "built"
    => \A node \in TreeNodes(last.tree) : node.val # NullSentinel => SumsToOne(node)

\* C14 amended: after a build the stored probabilities of every node that
\* stores at least one probability sum to 1 within 1e-3; a node whose valid
\* tokens all have probability 0 stores none.
C14_EveryNodeWithEntriesSumsToOne ==
    last.op = "built"
    => \A node \in TreeNodes(last.tree) : DOMAIN node.prb # {} => SumsToOne(node)

\* a built tree with a node of two entries and a node below a branch
C14_Witness ==
    /\ last.op = "built"
    /\ \E node \in TreeNodes(last.tree) : Cardinality(DOMAIN node.prb) >= 2
    /\ \E node \in TreeNodes(last.tree) :
          \E k \in DOMAIN node.prb :
             /\ node.prb[k].cls = "ChildNode"
             /\ DOMAIN node.prb[k].child_prb.prb # {}

NoDuplicates(list) == \A i, j \in 1..Len(list) : list[i] = list[j] => i = j

Contains(list, word) == \E i \in 1..Len(list) : list[i] = word

\* C16: for every anchor of the lexicon, no list the transformation engine
\* returns holds a word twice, and none holds the anchor.
C16_ListsWithoutDuplicatesOrAnchor ==
    last.op = "transformations"
    => \A list \in {last.anagrams, last.added, last.removed, last.changed} :
          NoDuplicates(list) /\ ~Contains(list, last.word)

\* the candidate is in none of the start word's seven lists
InNoCategory(start_word, candidate_word) ==
    \A category \in CategoryKeys :
        ~Contains(CategoryWords(get_comprehensive_transformations(start_word), category),
                  candidate_word)

\* C15: a request to score a candidate that is in none of the start word's
\* seven lists, the start word itself included, is answered with the
\* not-a-transformation failure and without data.
C15_NotATransformationWithoutScore ==
    (/\ last.op = "score_candidate_comprehensive"
     /\ InNoCategory(last.start_word, last.candidate_word))
    => /\ last.success = FALSE
       /\ last.message = "is not a valid transformation"
       /\ last.data = None

\* the start word was offered as its own candidate and refused
C15_Witness ==
    /\ last.op = "score_candidate_comprehensive"
    /\ last.candidate_word = last.start_word
    /\ last.success = FALSE
    /\ last.data = None

\* C17: the base score of a candidate of length 8 is, in every category,
\* the category's value for length 7.
C17_LengthEightUsesLengthSeven ==
    (/\ last.op = "base_score"
     /\ last.word_length = 8
     /\ last.category \in CategoryKeys)
    => last.base_score = BaseScores(last.category)[7]

\* the words a suggestion map offers
Offered(suggestions) ==
    {suggestions[play_type].word :
        play_type \in {p \in CategoryKeys : suggestions[p] # None}}

\* C18: once a game is started and after every processed move, neither the
\* player's nor Umi's suggestions offer a word that is on the player chain
\* or on the Umi chain.
C18_NoPlayedWordSuggested ==
    GameStarted(last.game_state) =>
        (Offered(last.game_state.player_suggestions)
         \cup Offered(last.game_state.umi_suggestions))
        \cap (WordsOf(last.game_state.player_chain)
              \cup WordsOf(last.game_state.umi_chain)) = {}

\* a move was processed, a transformation of the player's word is on a
\* chain, and the play type that lists it offers another word
C18_Witness ==
    /\ last.op = "move_processed"
    /\ \E play_type \in CategoryKeys :
          /\ last.game_state.player_suggestions[play_type] # None
          /\ WordsOf(CategoryWords(TransformationData(last.game_state.current_word),
                                   play_type))
             \cap WordsOf(last.game_state.player_chain \o last.game_state.umi_chain) # {}

\* the stored probabilities of the node sum to a value more than 1e-3 off 1
FarFromOne(node) ==
    DOMAIN node.prb # {} /\ node.val # NullSentinel /\ ~SumsToOne(node)

\* C19: validation rejects a tree that has a non-empty node whose stored
\* probabilities sum to a value more than 1e-3 off 1, and it changes
\* probabilities only in a tree whose nodes are all within 1e-3 of 1.
C19_FarOffRejectedNearRenormalised ==
    last.op = "validated"
    => /\ (\E node \in TreeNodes(last.given) : FarFromOne(node)) => ~last.ok
       /\ last.tree # last.given => \A node \in TreeNodes(last.given) : ~FarFromOne(node)

RECURSIVE DecodedWithSpaces(_)
\* the decoded text of the tokens, each followed by one space
DecodedWithSpaces(tokens) ==
    IF tokens = <<>> THEN ""
    ELSE TokenizerDecode(Head(tokens)) \o " " \o DecodedWithSpaces(Tail(tokens))

\* C20: in a build, the distribution of every node below the top of a
\* category is read for the depth-0 prompt followed by the decoded tokens
\* consumed above the node, each followed by one space, so that two nodes of
\* one category under different consumed prefixes have different contexts.
C20_ContextFollowsConsumedTokens ==
    last.op = "built"
    => /\ \A i \in 1..Len(last.contexts) :
             last.contexts[i].context =
                 BuildPrompt(last.start_word, last.contexts[i].category)
                 \o DecodedWithSpaces(last.contexts[i].consumed)
       /\ \A i, j \in 1..Len(last.contexts) :
             (/\ last.contexts[i].category = last.contexts[j].category
              /\ last.contexts[i].consumed # last.contexts[j].consumed)
             => last.contexts[i].context # last.contexts[j].context

\* C21: within one build the model is asked at most once for each distinct
\* context: the prompts it was asked for hold no duplicate, and they are
\* exactly the contexts the nodes of the build read their distribution for.
C21_OneQueryPerContext ==
    last.op = "built"
    => /\ NoDuplicates(last.calls)
       /\ WordsOf(last.calls) = {last.contexts[i].context : i \in 1..Len(last.contexts)}

\* a build of two categories in which a node below the top reused the
\* distribution cached for its context
C21_Witness ==
    /\ last.op = "built"
    /\ Len(last.calls) >= 2
    /\ Len(last.contexts) > Len(last.calls)
    /\ \E i \in 1..Len(last.contexts) : last.contexts[i].consumed # <<>>

\* the sum of the model's probabilities, as the model gave them, over the
\* valid first tokens of a category of the start word
RawValidSum(start_word, category, token_sequences) ==
    FSum([n \in 1..Len(GroupKeys(token_sequences)) |->
             get_probability_vector(BuildPrompt(start_word, category))
                 [GroupKeys(token_sequences)[n] + 1]])

\* C22: the val_prb_sum in the metadata of a category's node is the sum of
\* the raw model probabilities of the node's valid tokens, as they were
\* before the stored probabilities were renormalised.
C22_ValPrbSumIsRawSum ==
    last.op = "built"
    => \A i \in 1..Len(BuildOrder) :
          last.valid_words[BuildOrder[i].key] # <<>>
          => CategoryNode(last.tree, category_mapping(BuildOrder[i].key)[1],
                          BuildOrder[i].key).dat.val_prb_sum
             = RawValidSum(last.start_word, BuildOrder[i].category,
                           last.valid_words[BuildOrder[i].key])

\* C23: the bonus a call returns is base x 0.5 x the creativity score of
\* that call, whatever was computed before it.
C23_BonusOfThisCall ==
    last.op = "bonus"
    => last.bonus = FMul(FMul(Float(_get_base_score(last.category, last.word_length), 1),
                              Half),
                         last.creativity_score)

\* the place of a word in a list
PlaceIn(list, word) == CHOOSE i \in 1..Len(list) : list[i] = word

\* C24: when a get that inserts into the memory cache evicts an entry, the
\* evicted entry is the least recently used one: every entry the cache
\* keeps was used after it.
C24_EvictsLeastRecentlyUsed ==
    last.op = "cache_get"
    => \A gone \in last.evicted, stays \in last.kept :
          PlaceIn(last.recency_before, gone) < PlaceIn(last.recency_before, stays)

\* C25: when two writers have stored trees for different anchors into the
\* same file at the same time and both are done, the file holds both trees.
C25_ConcurrentWritersLoseNothing ==
    (/\ last.op = "writers"
     /\ last.overlapped
     /\ \A w \in Writers : last.at[w] = "idle"
     /\ last.stored["game"] = {"cat"}
     /\ last.stored["scoring"] = {"dog"})
    => /\ json_file.readable
       /\ json_file.content["cat"] # None
       /\ json_file.content["dog"] # None

\* C26: a key that a put has written since populate_from_file checked it is
\* skipped by populate_from_file: the write of a queued key leaves the value
\* the store holds for that key at that moment as it is.
C26_PopulateKeepsValuePutMeanwhile ==
    [][\A word \in Anchors :
          (/\ populate.phase = "storing"
           /\ word \in populate.pending
           /\ redis[word] # None
           /\ last'.op = "populate_store"
           /\ last'.word = word)
          => redis'[word] = redis[word]]_vars

\* C27: in a game no word occurs twice across the player chain and the Umi
\* chain taken together, the start word that begins both chains apart.
C27_NoWordTwiceAcrossChains ==
    GameStarted(last.game_state)
    => NoDuplicates(last.game_state.player_chain \o Tail(last.game_state.umi_chain))

\* C28: a player move that is refused (not in the dictionary, played
\* before, or no transformation of the current word) leaves the game state
\* as it was: chains, current word, scores, rounds, suggestions, history.
C28_RefusedMoveLeavesGameState ==
    [][(/\ GameStarted(last.game_state)
        /\ last'.op \in {"invalid_word", "duplicate_word"})
       => last'.game_state = last.game_state]_vars

\* a word played before is refused in a game that has a move behind it
C28_Witness ==
    /\ last.op = "duplicate_word"
    /\ GameStarted(last.game_state)
    /\ last.game_state.rounds_played >= 1
    /\ Len(last.game_state.move_history) >= 1

\* C29: whenever has(anchor) returns true, a get(anchor) issued with no
\* operation in between returns a tree, not absent (no fault in either call).
C29_HasImpliesGetReturnsTree ==
    \A a \in Anchors :
        has_probability_tree(memory_cache, storage_type, redis, data, a, FALSE)
        => get_probability_tree(memory_cache, storage_type, redis, data, a, FALSE).tree # None

\* C30: a put that fails with a storage fault leaves for its anchor the
\* memory cache, the key-value store and the JSON file as they were.
C30_FailedPutRetainsNothing ==
    [][(last'.op = "put" /\ last'.raised)
       => /\ MemTree(memory_cache', last'.start_word) = MemTree(memory_cache, last'.start_word)
          /\ redis'[last'.start_word] = redis[last'.start_word]
          /\ json_file'.readable = json_file.readable
          /\ json_file'.content[last'.start_word] = json_file.content[last'.start_word]]_vars

====
